---------------------------- MODULE Spec2Model ----------------------------
(***************************************************************************)
(* SmartShop: the search and chat endpoints (intent detection, catalog     *)
(* filtering and ordering, reply rendering), the recommendations, the      *)
(* review summary and the generated description (served one at a time,    *)
(* and the last two also step by step at the same time), and the Gemini    *)
(* client they call, modelled from shop/views copy 3.py and                *)
(* shop/services/gemini_client.py.                                         *)
(*                                                                         *)
(* A text is a sequence of characters, each character a one-character      *)
(* string (the em dash is the atom "emdash").  Prices are in cents: the    *)
(* Decimal(10,2) price 49.90 is 4990.                                      *)
(***************************************************************************)
EXTENDS Integers, Sequences, FiniteSets, TLC

VARIABLES catalog, reviews, interactions, apiKey, resp, inflight

vars == <<catalog, reviews, interactions, apiKey, resp, inflight>>

-----------------------------------------------------------------------------
(* Python str and re primitives used by the views                          *)

UpperLetters ==
  <<"A","B","C","D","E","F","G","H","I","J","K","L","M",
    "N","O","P","Q","R","S","T","U","V","W","X","Y","Z">>

LowerLetters ==
  <<"a","b","c","d","e","f","g","h","i","j","k","l","m",
    "n","o","p","q","r","s","t","u","v","w","x","y","z">>

DigitChars == <<"0","1","2","3","4","5","6","7","8","9">>

Range(s) == {s[i] : i \in 1..Len(s)}

IsUpper(c) == c \in Range(UpperLetters)

IsAlpha(c) == c \in Range(UpperLetters) \cup Range(LowerLetters)

IsDigit(c) == c \in Range(DigitChars)

IsSpace(c) == c \in {" ", "\n", "\t"}

LowerChar(c) ==
  IF IsUpper(c) THEN LowerLetters[CHOOSE i \in 1..26 : UpperLetters[i] = c] ELSE c

\* str.lower()
Lower(s) == [i \in 1..Len(s) |-> LowerChar(s[i])]

\* str.strip()
Strip(s) ==
  LET keep == {i \in 1..Len(s) : ~IsSpace(s[i])}
  IN  IF keep = {} THEN <<>>
      ELSE LET lo == CHOOSE i \in keep : \A j \in keep : i <= j
               hi == CHOOSE i \in keep : \A j \in keep : j <= i
           IN  SubSeq(s, lo, hi)

\* sub occurs in s at offset i (0-based)
OccursAt(sub, s, i) ==
  /\ i + Len(sub) <= Len(s)
  /\ \A j \in 1..Len(sub) : s[i + j] = sub[j]

\* the Python test "sub in s"
Contains(sub, s) == \E i \in 0..(Len(s) - Len(sub)) : OccursAt(sub, s, i)

\* any(w in ql for w in words)
ContainsAny(words, s) == \E k \in 1..Len(words) : Contains(words[k], s)

\* sep.join(parts)
RECURSIVE Join(_, _)
Join(sep, parts) ==
  IF parts = <<>> THEN <<>>
  ELSE IF Len(parts) = 1 THEN parts[1]
  ELSE parts[1] \o sep \o Join(sep, Tail(parts))

DigitVal(c) == CHOOSE d \in 0..9 : DigitChars[d + 1] = c

\* int(digits)
RECURSIVE ParseInt(_)
ParseInt(ds) ==
  IF ds = <<>> THEN 0
  ELSE 10 * ParseInt(SubSeq(ds, 1, Len(ds) - 1)) + DigitVal(ds[Len(ds)])

\* str(n) for n >= 0
RECURSIVE FormatInt(_)
FormatInt(n) ==
  IF n < 10 THEN <<DigitChars[n + 1]>>
  ELSE FormatInt(n \div 10) \o <<DigitChars[(n % 10) + 1]>>

\* str(Decimal) of a price with two decimal places, held in cents
FormatPrice(cents) ==
  FormatInt(cents \div 100) \o <<".">>
    \o <<DigitChars[((cents % 100) \div 10) + 1], DigitChars[(cents % 10) + 1]>>

\* the end of the maximal run of digits that starts at i
DigitRunEnd(s, i) ==
  CHOOSE e \in i..Len(s) :
    /\ \A j \in i..e : IsDigit(s[j])
    /\ e = Len(s) \/ ~IsDigit(s[e + 1])

\* the end of the maximal run of letters that starts at i
AlphaRunEnd(s, i) ==
  CHOOSE e \in i..Len(s) :
    /\ \A j \in i..e : IsAlpha(s[j])
    /\ e = Len(s) \/ ~IsAlpha(s[e + 1])

NoAmount == -1

\* m = re.search(r"\$?\s*(\d+)", ql); int(m.group(1)) if m else None.
\* The leftmost match reaches its digits through "$" and whitespace only, so
\* group 1 is the first maximal run of digits of the text.
re_search_amount(ql) ==
  LET ds == {i \in 1..Len(ql) : IsDigit(ql[i])}
  IN  IF ds = {} THEN NoAmount
      ELSE LET first == CHOOSE i \in ds : \A j \in ds : i <= j
           IN  ParseInt(SubSeq(ql, first, DigitRunEnd(ql, first)))

\* re.findall(r"[a-zA-Z]+", s) from position i on
RECURSIVE FindAllFrom(_, _)
FindAllFrom(s, i) ==
  IF i > Len(s) THEN <<>>
  ELSE IF IsAlpha(s[i])
       THEN LET e == AlphaRunEnd(s, i)
            IN  <<SubSeq(s, i, e)>> \o FindAllFrom(s, e + 1)
       ELSE FindAllFrom(s, i + 1)

re_findall_alpha(s) == FindAllFrom(s, 1)

-----------------------------------------------------------------------------
(* the word lists and fixed texts of the views                             *)

\* api_search: ["below", "under", "<", "less than", "cheaper"]
search_under_words ==
  << <<"b","e","l","o","w">>,
     <<"u","n","d","e","r">>,
     <<"<">>,
     <<"l","e","s","s"," ","t","h","a","n">>,
     <<"c","h","e","a","p","e","r">> >>

\* api_search: ["above", "over", ">", "more than", "higher than", "expensive"]
search_over_words ==
  << <<"a","b","o","v","e">>,
     <<"o","v","e","r">>,
     <<">">>,
     <<"m","o","r","e"," ","t","h","a","n">>,
     <<"h","i","g","h","e","r"," ","t","h","a","n">>,
     <<"e","x","p","e","n","s","i","v","e">> >>

\* api_search: the noise set
search_noise ==
  { <<"p","r","o","d","u","c","t">>,
     <<"p","r","o","d","u","c","t","s">>,
     <<"g","i","f","t">>,
     <<"b","e","l","o","w">>,
     <<"u","n","d","e","r">>,
     <<"l","e","s","s">>,
     <<"t","h","a","n">>,
     <<"a","b","o","v","e">>,
     <<"o","v","e","r">>,
     <<"m","o","r","e">>,
     <<"h","i","g","h","e","r">>,
     <<"p","r","i","c","e">>,
     <<"p","r","i","c","e","s">>,
     <<"c","h","e","a","p">>,
     <<"c","h","e","a","p","e","r">>,
     <<"e","x","p","e","n","s","i","v","e">>,
     <<"d","o","l","l","a","r">>,
     <<"d","o","l","l","a","r","s">> }

\* api_chat: ["below", "under", "<", "less than", "cheaper", "low price"]
chat_under_words ==
  << <<"b","e","l","o","w">>,
     <<"u","n","d","e","r">>,
     <<"<">>,
     <<"l","e","s","s"," ","t","h","a","n">>,
     <<"c","h","e","a","p","e","r">>,
     <<"l","o","w"," ","p","r","i","c","e">> >>

\* api_chat: ["above", "over", ">", "more than", "higher than", "at least"]
chat_over_words ==
  << <<"a","b","o","v","e">>,
     <<"o","v","e","r">>,
     <<">">>,
     <<"m","o","r","e"," ","t","h","a","n">>,
     <<"h","i","g","h","e","r"," ","t","h","a","n">>,
     <<"a","t"," ","l","e","a","s","t">> >>

\* api_chat: ["higher price", "high price", "expensive", "premium", "costly", "most expensive"]
chat_high_words ==
  << <<"h","i","g","h","e","r"," ","p","r","i","c","e">>,
     <<"h","i","g","h"," ","p","r","i","c","e">>,
     <<"e","x","p","e","n","s","i","v","e">>,
     <<"p","r","e","m","i","u","m">>,
     <<"c","o","s","t","l","y">>,
     <<"m","o","s","t"," ","e","x","p","e","n","s","i","v","e">> >>

\* api_chat: categories
categories ==
  << <<"e","l","e","c","t","r","o","n","i","c","s">>,
     <<"f","a","s","h","i","o","n">>,
     <<"h","o","m","e">>,
     <<"o","f","f","i","c","e">>,
     <<"s","p","o","r","t","s">> >>

\* api_chat: the noise set
chat_noise ==
  { <<"s","u","g","g","e","s","t">>,
     <<"r","e","c","o","m","m","e","n","d">>,
     <<"s","h","o","w">>,
     <<"m","e">>,
     <<"p","l","e","a","s","e">>,
     <<"g","i","f","t">>,
     <<"b","e","l","o","w">>,
     <<"u","n","d","e","r">>,
     <<"l","e","s","s">>,
     <<"t","h","a","n">>,
     <<"a","b","o","v","e">>,
     <<"o","v","e","r">>,
     <<"m","o","r","e">>,
     <<"h","i","g","h","e","r">>,
     <<"p","r","i","c","e">>,
     <<"p","r","i","c","e","s">>,
     <<"e","x","p","e","n","s","i","v","e">>,
     <<"p","r","e","m","i","u","m">>,
     <<"c","o","s","t","l","y">>,
     <<"m","o","s","t">>,
     <<"d","o","l","l","a","r">>,
     <<"d","o","l","l","a","r","s">> }

\* "Please type a question first."
RejectionReply ==
  <<"P","l","e","a","s","e"," ","t","y","p","e"," ","a"," ","q","u","e","s","t","i","o","n",
    " ","f","i","r","s","t",".">>

\* "Here are some higher-priced products from our catalog:"
TitleHigh ==
  <<"H","e","r","e"," ","a","r","e"," ","s","o","m","e"," ","h","i","g","h","e","r","-","p",
    "r","i","c","e","d"," ","p","r","o","d","u","c","t","s"," ","f","r","o","m"," ","o","u",
    "r"," ","c","a","t","a","l","o","g",":">>

\* f"Here are some products from our catalog priced above ${amount}:" up to the amount
TitleAbovePrefix ==
  <<"H","e","r","e"," ","a","r","e"," ","s","o","m","e"," ","p","r","o","d","u","c","t","s",
    " ","f","r","o","m"," ","o","u","r"," ","c","a","t","a","l","o","g"," ","p","r","i","c",
    "e","d"," ","a","b","o","v","e"," ","$">>

\* f"Here are some products from our catalog under ${amount}:" up to the amount
TitleUnderPrefix ==
  <<"H","e","r","e"," ","a","r","e"," ","s","o","m","e"," ","p","r","o","d","u","c","t","s",
    " ","f","r","o","m"," ","o","u","r"," ","c","a","t","a","l","o","g"," ","u","n","d","e",
    "r"," ","$">>

\* "Here are some products from our catalog:"
TitlePlain ==
  <<"H","e","r","e"," ","a","r","e"," ","s","o","m","e"," ","p","r","o","d","u","c","t","s",
    " ","f","r","o","m"," ","o","u","r"," ","c","a","t","a","l","o","g",":">>

\* the no-match guidance
NoMatchReply ==
  <<"I"," ","c","o","u","l","d","n","'","t"," ","f","i","n","d"," ","m","a","t","c","h","i",
    "n","g"," ","p","r","o","d","u","c","t","s","."," ","T","r","y",":"," ","'","m","o","s",
    "t"," ","e","x","p","e","n","s","i","v","e"," ","p","r","o","d","u","c","t","s","'",",",
    " ","'","o","v","e","r"," ","$","5","0"," ","e","l","e","c","t","r","o","n","i","c","s",
    "'",","," ","o","r"," ","'","u","n","d","e","r"," ","$","3","0"," ","s","p","o","r","t",
    "s","'",".">>

\* "\n\n(Note: AI service busy, showing catalog-based suggestions.)"
BusyNotice ==
  <<"\n","\n","(","N","o","t","e",":"," ","A","I"," ","s","e","r","v","i","c","e"," ","b",
    "u","s","y",","," ","s","h","o","w","i","n","g"," ","c","a","t","a","l","o","g","-","b",
    "a","s","e","d"," ","s","u","g","g","e","s","t","i","o","n","s",".",")">>

-----------------------------------------------------------------------------
(* models.py: Product, Interaction                                         *)

\* a Product row; price is the Decimal(10,2) value in cents
Product(id, name, category, price, tags, short_description) ==
  [id |-> id, name |-> name, category |-> category, price |-> price,
   tags |-> tags, short_description |-> short_description,
   ai_description |-> <<>>, ai_review_summary |-> <<>>]

\* request.user of an unauthenticated request
Anonymous == "anonymous"

\* Interaction.objects.create(user=..., event_type="SEARCH", query_text=q)
SearchInteraction(user, q) ==
  [user |-> user, event_type |-> "SEARCH", product_id |-> 0, query_text |-> q]

-----------------------------------------------------------------------------
(* QuerySet operations                                                     *)

\* the sort key an order_by field gives a row
FieldKey(p, field) ==
  CASE field = "price" -> p.price
    [] field = "-price" -> 0 - p.price
    [] field = "id" -> p.id
    [] field = "-id" -> 0 - p.id

\* a sorts before b under order_by(*fields)
Before(a, b, fields) ==
  \E k \in 1..Len(fields) :
    /\ FieldKey(a, fields[k]) < FieldKey(b, fields[k])
    /\ \A j \in 1..(k - 1) : FieldKey(a, fields[j]) = FieldKey(b, fields[j])

\* qs.order_by(*fields); the last field is the unique id, so the order is total
OrderBy(qs, fields) ==
  LET n == Len(qs)
      rank(k) == Cardinality({j \in 1..n : Before(qs[j], qs[k], fields)}) + 1
  IN  [i \in 1..n |-> qs[CHOOSE k \in 1..n : rank(k) = i]]

\* qs[:n]
Take(qs, n) == SubSeq(qs, 1, IF Len(qs) < n THEN Len(qs) ELSE n)

\* field__icontains=w
IContains(field, w) == Contains(Lower(w), Lower(field))

\* field__lte / field__gte against an integer amount of dollars
PriceLte(p, amount) == p.price <= 100 * amount

PriceGte(p, amount) == p.price >= 100 * amount

-----------------------------------------------------------------------------
(* services/gemini_client.py                                               *)

\* what client.models.generate_content does: it raises (quota, network), or
\* answers with resp.text None, or with a text
BackendError == [kind |-> "error", text |-> <<>>]

BackendNone == [kind |-> "none", text |-> <<>>]

BackendText(t) == [kind |-> "text", text |-> t]

\* generate_text: _client() is called before the try and raises RuntimeError
\* when GEMINI_API_KEY is missing; inside the try every exception gives ""
generate_text(key, backend) ==
  IF ~key THEN [raised |-> TRUE, text |-> <<>>]
  ELSE IF backend.kind = "error" THEN [raised |-> FALSE, text |-> <<>>]
  ELSE [raised |-> FALSE, text |-> Strip(backend.text)]

-----------------------------------------------------------------------------
(* json.loads, for the JSON texts without floats and string escapes        *)

\* Python values json.loads returns
JInt(n) == [t |-> "int", v |-> n]

JStr(s) == [t |-> "str", v |-> s]

JBool(b) == [t |-> "bool", v |-> b]

JNone == [t |-> "None", v |-> 0]

JList(items) == [t |-> "list", v |-> items]

\* a dict as its items in insertion order
JDict(items) == [t |-> "dict", v |-> items]

JItem(key, value) == [k |-> key, v |-> value]

\* the character at position i, "" past the end
CharAt(s, i) == IF i \in 1..Len(s) THEN s[i] ELSE ""

\* the first position from i on that holds no JSON whitespace
SkipWs(s, i) ==
  CHOOSE j \in i..(Len(s) + 1) :
    /\ \A k \in i..(j - 1) : s[k] \in {" ", "\n", "\t", "\r"}
    /\ CharAt(s, j) \notin {" ", "\n", "\t", "\r"}

JsonFail == [ok |-> FALSE, val |-> JNone, next |-> 0]

JsonOk(val, next) == [ok |-> TRUE, val |-> val, next |-> next]

\* a literal word at position i
JsonWord(s, i, word, val) ==
  IF OccursAt(word, s, i - 1) THEN JsonOk(val, i + Len(word)) ELSE JsonFail

\* "..." at position i, which holds the opening quote
JsonString(s, i) ==
  LET closing == {j \in (i + 1)..Len(s) : s[j] = "\""}
  IN  IF closing = {} THEN JsonFail
      ELSE LET e == CHOOSE j \in closing : \A k \in closing : j <= k
               body == SubSeq(s, i + 1, e - 1)
           IN  IF \E k \in 1..Len(body) : body[k] \in {"\\", "\n"} THEN JsonFail
               ELSE JsonOk(JStr(body), e + 1)

\* -?(0|[1-9][0-9]*) at position i; a fraction or an exponent is not read
JsonNumber(s, i) ==
  LET d == IF CharAt(s, i) = "-" THEN i + 1 ELSE i
  IN  IF ~IsDigit(CharAt(s, d)) THEN JsonFail
      ELSE LET e == IF s[d] = "0" THEN d ELSE DigitRunEnd(s, d)
               n == ParseInt(SubSeq(s, d, e))
           IN  IF CharAt(s, e + 1) \in {".", "e", "E"} THEN JsonFail
               ELSE JsonOk(JInt(IF d = i THEN n ELSE 0 - n), e + 1)

RECURSIVE JsonValue(_, _)
RECURSIVE JsonElements(_, _, _)
RECURSIVE JsonMembers(_, _, _)

\* the value that starts at or after position i
JsonValue(s, i) ==
  LET j == SkipWs(s, i)
      c == CharAt(s, j)
  IN  CASE c = "{" ->
             IF CharAt(s, SkipWs(s, j + 1)) = "}"
               THEN JsonOk(JDict(<<>>), SkipWs(s, j + 1) + 1)
               ELSE JsonMembers(s, j + 1, <<>>)
        [] c = "[" ->
             IF CharAt(s, SkipWs(s, j + 1)) = "]"
               THEN JsonOk(JList(<<>>), SkipWs(s, j + 1) + 1)
               ELSE JsonElements(s, j + 1, <<>>)
        [] c = "\"" -> JsonString(s, j)
        [] c = "t" -> JsonWord(s, j, <<"t","r","u","e">>, JBool(TRUE))
        [] c = "f" -> JsonWord(s, j, <<"f","a","l","s","e">>, JBool(FALSE))
        [] c = "n" -> JsonWord(s, j, <<"n","u","l","l">>, JNone)
        [] c = "-" \/ IsDigit(c) -> JsonNumber(s, j)
        [] OTHER -> JsonFail

\* the rest of an array: a value, then "," and more, or "]"
JsonElements(s, i, acc) ==
  LET r == JsonValue(s, i)
      j == SkipWs(s, r.next)
  IN  IF ~r.ok THEN JsonFail
      ELSE IF CharAt(s, j) = "," THEN JsonElements(s, j + 1, Append(acc, r.val))
      ELSE IF CharAt(s, j) = "]" THEN JsonOk(JList(Append(acc, r.val)), j + 1)
      ELSE JsonFail

\* the rest of an object: "key": value, then "," and more, or "}"
JsonMembers(s, i, acc) ==
  LET k == SkipWs(s, i)
      key == IF CharAt(s, k) = "\"" THEN JsonString(s, k) ELSE JsonFail
      colon == SkipWs(s, key.next)
      r == JsonValue(s, colon + 1)
      j == SkipWs(s, r.next)
  IN  IF ~key.ok \/ CharAt(s, colon) # ":" THEN JsonFail
      ELSE IF ~r.ok THEN JsonFail
      ELSE IF CharAt(s, j) = ","
        THEN JsonMembers(s, j + 1, Append(acc, JItem(key.val.v, r.val)))
      ELSE IF CharAt(s, j) = "}"
        THEN JsonOk(JDict(Append(acc, JItem(key.val.v, r.val))), j + 1)
      ELSE JsonFail

\* json.loads(s): ok is FALSE where it raises
json_loads(s) ==
  LET r == JsonValue(s, 1)
  IN  IF r.ok /\ SkipWs(s, r.next) > Len(s) THEN [ok |-> TRUE, val |-> r.val]
      ELSE [ok |-> FALSE, val |-> JNone]

\* generate_json: generate_text is called before the try; inside it whatever
\* json.loads returns is returned, and {} when json.loads raises
generate_json(key, backend) ==
  LET gen == generate_text(key, backend)
      parsed == json_loads(gen.text)
  IN  IF gen.raised THEN [raised |-> TRUE, value |-> JNone]
      ELSE IF parsed.ok THEN [raised |-> FALSE, value |-> parsed.val]
      ELSE [raised |-> FALSE, value |-> JDict(<<>>)]

-----------------------------------------------------------------------------
(* views copy 3.py: api_search                                             *)

SearchLimit == 20

\* 2) wants_under / wants_over
search_wants_under(ql) == ContainsAny(search_under_words, ql)

search_wants_over(ql) == ContainsAny(search_over_words, ql)

\* 3) keywords = [w for w in re.findall(r"[a-zA-Z]+", ql) if w not in noise]
search_keywords(ql) ==
  SelectSeq(re_findall_alpha(ql), LAMBDA w : w \notin search_noise)

\* the price filter without its "over" branch, as in views copy 2.py
search_price_filter_under_only(qs, amount, wants_under, wants_over) ==
  IF amount # NoAmount /\ wants_under
    THEN SelectSeq(qs, LAMBDA p : PriceLte(p, amount))
  ELSE qs

\* 4) the price filter
search_price_filter(qs, amount, wants_under, wants_over) ==
  IF amount # NoAmount /\ wants_under
    THEN SelectSeq(qs, LAMBDA p : PriceLte(p, amount))
  ELSE IF amount # NoAmount /\ wants_over
    THEN SelectSeq(qs, LAMBDA p : PriceGte(p, amount))
  ELSE qs

\* 5) the keyword filter: name, category or tags contains any keyword
search_keyword_filter(qs, keywords) ==
  IF keywords # <<>>
    THEN SelectSeq(qs, LAMBDA p :
           \E k \in 1..Len(keywords) :
             \/ IContains(p.name, keywords[k])
             \/ IContains(p.category, keywords[k])
             \/ IContains(p.tags, keywords[k]))
  ELSE qs

\* 6) the ordering and the limit
search_order(qs, amount, wants_under, wants_over) ==
  IF amount # NoAmount /\ wants_over
    THEN Take(OrderBy(qs, <<"price", "id">>), SearchLimit)
  ELSE IF amount # NoAmount /\ wants_under
    THEN Take(OrderBy(qs, <<"-price", "id">>), SearchLimit)
  ELSE Take(OrderBy(qs, <<"id">>), SearchLimit)

\* the results of api_search for the trimmed, non-empty query q
search_results(products, q) ==
  LET ql == Lower(q)
      amount == re_search_amount(ql)
      under == search_wants_under(ql)
      over == search_wants_over(ql)
      priced == search_price_filter(products, amount, under, over)
      matched == search_keyword_filter(priced, search_keywords(ql))
  IN  search_order(matched, amount, under, over)

\* no request is being answered
NoResponse ==
  [op |-> "none", message |-> <<>>, status |-> 0, branch |-> "none",
   results |-> <<>>, reply |-> <<>>, aiCalled |-> FALSE, aiText |-> <<>>,
   catalogRead |-> FALSE]

\* what a request served step by step holds: where it is, the Product
\* instance it loaded, the reviews it read, the text it got, its status
RequestState(pc, product, revs, text, status) ==
  [pc |-> pc, product |-> product, revs |-> revs, text |-> text, status |-> status]

NoProduct == Product(0, <<>>, <<>>, 0, <<>>, <<>>)

\* no request is being served step by step
NoRequests ==
  [r \in {"describe", "summarize"} |-> RequestState("none", NoProduct, <<>>, <<>>, 0)]

\* the catalog is queried only for a non-empty q (the return at line 183);
\* effects: the database calls of the request in the order the code makes them
SearchResponse(user, raw, results, effects) ==
  [op |-> "search", message |-> raw, status |-> 200, branch |-> "results",
   results |-> results, reply |-> <<>>, aiCalled |-> FALSE, aiText |-> <<>>,
   catalogRead |-> Strip(raw) # <<>>, user |-> user, effects |-> effects]

\* api_search storing the query text as received, not trimmed
api_search_log_untrimmed(user, raw) ==
  LET q == Strip(raw)
  IN  /\ resp = NoResponse
      /\ interactions' =
           IF q # <<>> /\ user # Anonymous
             THEN Append(interactions, SearchInteraction(user, raw))
             ELSE interactions
      /\ resp' = SearchResponse(user, raw,
                                 IF q = <<>> THEN <<>> ELSE search_results(catalog, q),
                                 IF q = <<>> THEN <<>>
                                 ELSE IF user # Anonymous THEN <<"log", "query">>
                                 ELSE <<"query">>)
      /\ UNCHANGED <<catalog, reviews, apiKey, inflight>>

\* GET /api/search/?q=raw by user (Anonymous when not authenticated)
api_search(user, raw) ==
  LET q == Strip(raw)
  IN  /\ resp = NoResponse
      /\ interactions' =
           IF q # <<>> /\ user # Anonymous
             THEN Append(interactions, SearchInteraction(user, q))
             ELSE interactions
      /\ resp' = SearchResponse(user, raw,
                                 IF q = <<>> THEN <<>> ELSE search_results(catalog, q),
                                 IF q = <<>> THEN <<>>
                                 ELSE IF user # Anonymous THEN <<"log", "query">>
                                 ELSE <<"query">>)
      /\ UNCHANGED <<catalog, reviews, apiKey, inflight>>

-----------------------------------------------------------------------------
(* views copy 3.py: api_chat                                               *)

ChatLimit == 5

KeywordLimit == 6

NoCategory == <<>>

\* 1) wants_under / wants_over / wants_high
chat_wants_under(ql) == ContainsAny(chat_under_words, ql)

chat_wants_over(ql) == ContainsAny(chat_over_words, ql)

chat_wants_high(ql) == ContainsAny(chat_high_words, ql)

\* 2) category = next((c for c in categories if c in ql), None)
chat_category(ql) ==
  LET hits == {k \in 1..Len(categories) : Contains(categories[k], ql)}
  IN  IF hits = {} THEN NoCategory
      ELSE categories[CHOOSE k \in hits : \A j \in hits : k <= j]

\* 3) keywords: the letter runs that are no noise word and longer than 2
chat_keywords(ql) ==
  SelectSeq(re_findall_alpha(ql),
            LAMBDA w : w \notin chat_noise /\ Len(w) > 2)

\* 4) the category filter
chat_category_filter(qs, category) ==
  IF category # NoCategory
    THEN SelectSeq(qs, LAMBDA p :
           IContains(p.category, category) \/ IContains(p.tags, category))
  ELSE qs

\* the price filter with its two branches tested in the other order
chat_price_filter_over_first(qs, amount, wants_under, wants_over, wants_high) ==
  IF amount # NoAmount /\ (wants_over \/ wants_high)
    THEN SelectSeq(qs, LAMBDA p : PriceGte(p, amount))
  ELSE IF amount # NoAmount /\ wants_under
    THEN SelectSeq(qs, LAMBDA p : PriceLte(p, amount))
  ELSE qs

\* 4) the price filter
chat_price_filter(qs, amount, wants_under, wants_over, wants_high) ==
  IF amount # NoAmount /\ wants_under
    THEN SelectSeq(qs, LAMBDA p : PriceLte(p, amount))
  ELSE IF amount # NoAmount /\ (wants_over \/ wants_high)
    THEN SelectSeq(qs, LAMBDA p : PriceGte(p, amount))
  ELSE qs

\* the keyword filter over every keyword, as api_search builds it (line 220)
chat_keyword_filter_unlimited(qs, keywords) ==
  IF keywords # <<>>
    THEN SelectSeq(qs, LAMBDA p :
           \E k \in 1..Len(keywords) :
             \/ IContains(p.name, keywords[k])
             \/ IContains(p.tags, keywords[k])
             \/ IContains(p.category, keywords[k])
             \/ IContains(p.short_description, keywords[k]))
  ELSE qs

\* 4) the keyword filter over keywords[:6]
chat_keyword_filter(qs, keywords) ==
  IF keywords # <<>>
    THEN LET kws == Take(keywords, KeywordLimit)
         IN  SelectSeq(qs, LAMBDA p :
               \E k \in 1..Len(kws) :
                 \/ IContains(p.name, kws[k])
                 \/ IContains(p.tags, kws[k])
                 \/ IContains(p.category, kws[k])
                 \/ IContains(p.short_description, kws[k]))
  ELSE qs

\* the ordering without its first branch: a high-price phrase with no amount
\* falls through to the newest-first order
chat_order_no_high(qs, amount, wants_under, wants_over, wants_high) ==
  IF amount # NoAmount /\ (wants_over \/ wants_high)
    THEN OrderBy(qs, <<"-price", "-id">>)
  ELSE IF amount # NoAmount /\ wants_under THEN OrderBy(qs, <<"price", "id">>)
  ELSE OrderBy(qs, <<"-id">>)

\* 5) the ordering
chat_order(qs, amount, wants_under, wants_over, wants_high) ==
  IF wants_high /\ amount = NoAmount THEN OrderBy(qs, <<"-price", "-id">>)
  ELSE IF amount # NoAmount /\ (wants_over \/ wants_high)
    THEN OrderBy(qs, <<"-price", "-id">>)
  ELSE IF amount # NoAmount /\ wants_under THEN OrderBy(qs, <<"price", "id">>)
  ELSE OrderBy(qs, <<"-id">>)

\* the title with the amount left out of the two priced variants
chat_title_without_amount(amount, wants_under, wants_over, wants_high) ==
  IF wants_high /\ amount = NoAmount THEN TitleHigh
  ELSE IF amount # NoAmount /\ (wants_over \/ wants_high)
    THEN TitleAbovePrefix \o <<":">>
  ELSE IF amount # NoAmount /\ wants_under
    THEN TitleUnderPrefix \o <<":">>
  ELSE TitlePlain

\* 5) the title
chat_title(amount, wants_under, wants_over, wants_high) ==
  IF wants_high /\ amount = NoAmount THEN TitleHigh
  ELSE IF amount # NoAmount /\ (wants_over \/ wants_high)
    THEN TitleAbovePrefix \o FormatInt(amount) \o <<":">>
  ELSE IF amount # NoAmount /\ wants_under
    THEN TitleUnderPrefix \o FormatInt(amount) \o <<":">>
  ELSE TitlePlain

\* products = list(qs[:5]) for the trimmed, non-empty message
chat_products(all, message) ==
  LET ql == Lower(message)
      amount == re_search_amount(ql)
      under == chat_wants_under(ql)
      over == chat_wants_over(ql)
      high == chat_wants_high(ql)
      incat == chat_category_filter(all, chat_category(ql))
      priced == chat_price_filter(incat, amount, under, over, high)
      matched == chat_keyword_filter(priced, chat_keywords(ql))
  IN  Take(chat_order(matched, amount, under, over, high), ChatLimit)

\* the title chosen for the trimmed, non-empty message
chat_title_of(message) ==
  LET ql == Lower(message)
  IN  chat_title(re_search_amount(ql), chat_wants_under(ql),
                 chat_wants_over(ql), chat_wants_high(ql))

\* f"- {p.name} (${p.price}) - {p.category} (View: /products/{p.id}/)"
product_line(p) ==
  <<"-", " ">> \o p.name \o <<" ", "(", "$">> \o FormatPrice(p.price)
    \o <<")", " ", "emdash", " ">> \o p.category
    \o <<" ", "(", "V", "i", "e", "w", ":", " ", "/", "p", "r", "o", "d", "u", "c", "t", "s", "/">>
    \o FormatInt(p.id) \o <<"/", ")">>

\* the listing of views copy 2.py fallback_answer: the newest products of the
\* whole catalog, whatever was retrieved
deterministic_reply_catalog(title, products) ==
  LET newest == Take(OrderBy(catalog, <<"-id">>), ChatLimit)
  IN  Join(<<"\n">>, <<title>> \o [i \in 1..Len(newest) |-> product_line(newest[i])])

\* 6) deterministic = "\n".join([title] + one line per product)
deterministic_reply(title, products) ==
  Join(<<"\n">>, <<title>> \o [i \in 1..Len(products) |-> product_line(products[i])])

\* the reply without the notice on the fallback path
chat_reply_no_notice(ai_reply, deterministic) ==
  IF ai_reply # <<>> THEN ai_reply ELSE deterministic

\* 7) reply = ai_reply if ai_reply else deterministic + notice
chat_reply(ai_reply, deterministic) ==
  IF ai_reply # <<>> THEN ai_reply ELSE deterministic \o BusyNotice

\* catalogRead: list(qs[:5]) at line 375 was reached
ChatResponse(raw, status, branch, results, reply, aiCalled, aiText, catalogRead) ==
  [op |-> "chat", message |-> raw, status |-> status, branch |-> branch,
   results |-> results, reply |-> reply, aiCalled |-> aiCalled, aiText |-> aiText,
   catalogRead |-> catalogRead]

\* api_chat without the test of lines 308-309
api_chat_no_reject(raw, backend) ==
  LET message == Strip(raw)
      products == chat_products(catalog, message)
      gen == generate_text(apiKey, backend)
      ai_reply == Strip(gen.text)
      deterministic == deterministic_reply(chat_title_of(message), products)
  IN  /\ resp = NoResponse
      /\ resp' =
           IF products = <<>>
             THEN ChatResponse(raw, 200, "nomatch", <<>>, NoMatchReply, FALSE, <<>>, TRUE)
           ELSE IF gen.raised
             THEN ChatResponse(raw, 500, "raised", <<>>, <<>>, TRUE, <<>>, TRUE)
           ELSE ChatResponse(raw, 200, IF ai_reply # <<>> THEN "ai" ELSE "fallback",
                             products, chat_reply(ai_reply, deterministic),
                             TRUE, gen.text, TRUE)
      /\ UNCHANGED <<catalog, reviews, interactions, apiKey, inflight>>

\* api_chat calling generate_text before the test of line 377
api_chat_ai_before_nomatch(raw, backend) ==
  LET message == Strip(raw)
      products == chat_products(catalog, message)
      gen == generate_text(apiKey, backend)
      ai_reply == Strip(gen.text)
      deterministic == deterministic_reply(chat_title_of(message), products)
  IN  /\ resp = NoResponse
      /\ resp' =
           IF message = <<>>
             THEN ChatResponse(raw, 400, "rejection", <<>>, RejectionReply, FALSE, <<>>, FALSE)
           ELSE IF gen.raised
             THEN ChatResponse(raw, 500, "raised", <<>>, <<>>, TRUE, <<>>, TRUE)
           ELSE IF products = <<>>
             THEN ChatResponse(raw, 200, "nomatch", <<>>, NoMatchReply, TRUE, gen.text, TRUE)
           ELSE ChatResponse(raw, 200, IF ai_reply # <<>> THEN "ai" ELSE "fallback",
                             products, chat_reply(ai_reply, deterministic),
                             TRUE, gen.text, TRUE)
      /\ UNCHANGED <<catalog, reviews, interactions, apiKey, inflight>>

\* POST /api/chat/ {"message": raw}; backend is what Gemini does if called
api_chat(raw, backend) ==
  LET message == Strip(raw)
      products == chat_products(catalog, message)
      gen == generate_text(apiKey, backend)
      ai_reply == Strip(gen.text)
      deterministic == deterministic_reply(chat_title_of(message), products)
  IN  /\ resp = NoResponse
      /\ resp' =
           IF message = <<>>
             THEN ChatResponse(raw, 400, "rejection", <<>>, RejectionReply, FALSE, <<>>, FALSE)
           ELSE IF products = <<>>
             THEN ChatResponse(raw, 200, "nomatch", <<>>, NoMatchReply, FALSE, <<>>, TRUE)
           ELSE IF gen.raised
             THEN ChatResponse(raw, 500, "raised", <<>>, <<>>, TRUE, <<>>, TRUE)
           ELSE ChatResponse(raw, 200, IF ai_reply # <<>> THEN "ai" ELSE "fallback",
                             products, chat_reply(ai_reply, deterministic),
                             TRUE, gen.text, TRUE)
      /\ UNCHANGED <<catalog, reviews, interactions, apiKey, inflight>>

-----------------------------------------------------------------------------
(* catalogs and request inputs                                             *)

\* tests.py, tests_api.py setUpTestData
TestCatalog ==
  <<
     \* 1: Wireless Earbuds | Electronics | 49.90
     Product(1,
       <<"W","i","r","e","l","e","s","s"," ","E","a","r","b","u","d","s">>,
       <<"E","l","e","c","t","r","o","n","i","c","s">>,
       4990,
       <<"a","u","d","i","o",",","w","i","r","e","l","e","s","s",",","g","y","m">>,
       <<"C","o","m","p","a","c","t"," ","w","i","r","e","l","e","s","s"," ","e","a","r",
         "b","u","d","s",".">>),
     \* 2: Yoga Mat | Sports | 18.00
     Product(2,
       <<"Y","o","g","a"," ","M","a","t">>,
       <<"S","p","o","r","t","s">>,
       1800,
       <<"f","i","t","n","e","s","s",",","y","o","g","a",",","h","o","m","e","-","w","o",
         "r","k","o","u","t">>,
       <<"N","o","n","-","s","l","i","p"," ","y","o","g","a"," ","m","a","t",".">>),
     \* 3: Smart Watch | Electronics | 119.00
     Product(3,
       <<"S","m","a","r","t"," ","W","a","t","c","h">>,
       <<"E","l","e","c","t","r","o","n","i","c","s">>,
       11900,
       <<"h","e","a","l","t","h",",","f","i","t","n","e","s","s",",","w","e","a","r","a",
         "b","l","e">>,
       <<"T","r","a","c","k"," ","f","i","t","n","e","s","s"," ","a","n","d"," ","n","o",
         "t","i","f","i","c","a","t","i","o","n","s",".">>)
  >>

\* tests_ai_logic.py setUpTestData
AiLogicCatalog ==
  <<
     \* 1: Cheap Item | Home | 10.00
     Product(1,
       <<"C","h","e","a","p"," ","I","t","e","m">>,
       <<"H","o","m","e">>,
       1000,
       <<"c","h","e","a","p",",","h","o","m","e">>,
       <<>>),
     \* 2: Mid Item | Home | 50.00
     Product(2,
       <<"M","i","d"," ","I","t","e","m">>,
       <<"H","o","m","e">>,
       5000,
       <<"m","i","d",",","h","o","m","e">>,
       <<>>),
     \* 3: Expensive Item | Home | 200.00
     Product(3,
       <<"E","x","p","e","n","s","i","v","e"," ","I","t","e","m">>,
       <<"H","o","m","e">>,
       20000,
       <<"p","r","e","m","i","u","m",",","h","o","m","e">>,
       <<>>)
  >>

\* seed_data.py sample_products
SeedCatalog ==
  <<
     \* 1: Wireless Earbuds | Electronics | 49.90
     Product(1,
       <<"W","i","r","e","l","e","s","s"," ","E","a","r","b","u","d","s">>,
       <<"E","l","e","c","t","r","o","n","i","c","s">>,
       4990,
       <<"a","u","d","i","o",",","w","i","r","e","l","e","s","s",",","g","y","m">>,
       <<"C","o","m","p","a","c","t"," ","w","i","r","e","l","e","s","s"," ","e","a","r",
         "b","u","d","s"," ","f","o","r"," ","m","u","s","i","c"," ","a","n","d"," ","c",
         "a","l","l","s",".">>),
     \* 2: Gaming Mouse | Electronics | 29.90
     Product(2,
       <<"G","a","m","i","n","g"," ","M","o","u","s","e">>,
       <<"E","l","e","c","t","r","o","n","i","c","s">>,
       2990,
       <<"g","a","m","i","n","g",",","p","c",",","a","c","c","e","s","s","o","r","y">>,
       <<"E","r","g","o","n","o","m","i","c"," ","m","o","u","s","e"," ","w","i","t","h",
         " ","p","r","e","c","i","s","e"," ","t","r","a","c","k","i","n","g",".">>),
     \* 3: Running Shoes | Fashion | 89.00
     Product(3,
       <<"R","u","n","n","i","n","g"," ","S","h","o","e","s">>,
       <<"F","a","s","h","i","o","n">>,
       8900,
       <<"s","p","o","r","t","s",",","f","i","t","n","e","s","s",",","c","o","m","f","o",
         "r","t">>,
       <<"L","i","g","h","t","w","e","i","g","h","t"," ","s","h","o","e","s"," ","d","e",
         "s","i","g","n","e","d"," ","f","o","r"," ","d","a","i","l","y"," ","r","u","n",
         "s",".">>),
     \* 4: Coffee Maker | Home | 79.00
     Product(4,
       <<"C","o","f","f","e","e"," ","M","a","k","e","r">>,
       <<"H","o","m","e">>,
       7900,
       <<"k","i","t","c","h","e","n",",","c","o","f","f","e","e",",","m","o","r","n","i",
         "n","g">>,
       <<"B","r","e","w"," ","f","r","e","s","h"," ","c","o","f","f","e","e"," ","q","u",
         "i","c","k","l","y"," ","a","n","d"," ","e","a","s","i","l","y",".">>),
     \* 5: Backpack | Fashion | 39.00
     Product(5,
       <<"B","a","c","k","p","a","c","k">>,
       <<"F","a","s","h","i","o","n">>,
       3900,
       <<"t","r","a","v","e","l",",","s","c","h","o","o","l",",","b","a","g">>,
       <<"D","u","r","a","b","l","e"," ","b","a","c","k","p","a","c","k"," ","f","o","r",
         " ","w","o","r","k",","," ","s","c","h","o","o","l",","," ","o","r"," ","t","r",
         "a","v","e","l",".">>),
     \* 6: Smart Watch | Electronics | 119.00
     Product(6,
       <<"S","m","a","r","t"," ","W","a","t","c","h">>,
       <<"E","l","e","c","t","r","o","n","i","c","s">>,
       11900,
       <<"h","e","a","l","t","h",",","f","i","t","n","e","s","s",",","w","e","a","r","a",
         "b","l","e">>,
       <<"T","r","a","c","k"," ","f","i","t","n","e","s","s",","," ","s","l","e","e","p",
         ","," ","a","n","d"," ","n","o","t","i","f","i","c","a","t","i","o","n","s",".">>),
     \* 7: Blender | Home | 55.00
     Product(7,
       <<"B","l","e","n","d","e","r">>,
       <<"H","o","m","e">>,
       5500,
       <<"k","i","t","c","h","e","n",",","s","m","o","o","t","h","i","e",",","h","e","a",
         "l","t","h","y">>,
       <<"B","l","e","n","d"," ","s","m","o","o","t","h","i","e","s",","," ","s","h","a",
         "k","e","s",","," ","a","n","d"," ","s","a","u","c","e","s"," ","f","a","s","t",".">>),
     \* 8: Sunglasses | Fashion | 25.00
     Product(8,
       <<"S","u","n","g","l","a","s","s","e","s">>,
       <<"F","a","s","h","i","o","n">>,
       2500,
       <<"s","u","m","m","e","r",",","s","t","y","l","e",",","u","v">>,
       <<"U","V"," ","p","r","o","t","e","c","t","i","o","n"," ","w","i","t","h"," ","a",
         " ","m","o","d","e","r","n"," ","s","t","y","l","e",".">>),
     \* 9: Laptop Stand | Office | 19.90
     Product(9,
       <<"L","a","p","t","o","p"," ","S","t","a","n","d">>,
       <<"O","f","f","i","c","e">>,
       1990,
       <<"d","e","s","k",",","e","r","g","o","n","o","m","i","c",",","w","o","r","k">>,
       <<"I","m","p","r","o","v","e"," ","p","o","s","t","u","r","e"," ","w","i","t","h",
         " ","a","n"," ","a","d","j","u","s","t","a","b","l","e"," ","s","t","a","n","d",".">>),
     \* 10: Yoga Mat | Sports | 18.00
     Product(10,
       <<"Y","o","g","a"," ","M","a","t">>,
       <<"S","p","o","r","t","s">>,
       1800,
       <<"f","i","t","n","e","s","s",",","y","o","g","a",",","h","o","m","e","-","w","o",
         "r","k","o","u","t">>,
       <<"N","o","n","-","s","l","i","p"," ","m","a","t"," ","f","o","r"," ","y","o","g",
         "a"," ","a","n","d"," ","s","t","r","e","t","c","h","i","n","g",".">>)
  >>

\* the phrases request texts are built from
Vocabulary ==
  << <<"u","n","d","e","r"," ","$","2","0">>,
     <<"b","e","l","o","w"," ","$","6","0">>,
     <<"a","b","o","v","e"," ","$","6","0">>,
     <<"o","v","e","r"," ","$","2","0">>,
     <<"5","0">>,
     <<"e","x","p","e","n","s","i","v","e">>,
     <<"c","h","e","a","p","e","r">>,
     <<"y","o","g","a">>,
     <<"s","p","o","r","t","s">>,
     <<"p","r","e","m","i","u","m">> >>

\* the messages of the tests (tests.py, tests_api.py, tests_ai_logic.py), and a blank one
FixedMessages ==
  { <<"h","i","g","h","e","r"," ","p","r","i","c","e"," ","p","r","o","d","u","c","t","s">>,
     <<"S","u","g","g","e","s","t"," ","p","r","o","d","u","c","t"," ","b","e","l","o","w",
       " ","$","5","0">>,
     <<"M","o","s","t"," ","e","x","p","e","n","s","i","v","e"," ","p","r","o","d","u","c",
       "t","s">>,
     <<"a","b","o","v","e"," ","$","1","0","0">>,
     <<" ">> }

\* texts Gemini may answer with: blank, and the reply mocked in tests_api.py
AiTexts ==
  { <<" "," ","\n">>,
     <<" ","M","o","c","k"," ","A","I"," ","r","e","p","l","y",":"," ","W","i","r","e","l",
       "e","s","s"," ","E","a","r","b","u","d","s"," ","(","$","4","9",".","9","0",")","\n">> }

\* messages of seven keywords: the only one found in a catalog comes seventh, sixth
LongMessages ==
  { <<"b","i","g"," ","r","e","d"," ","b","l","u","e"," ","g","r","e","e","n"," ",
      "p","i","n","k"," ","g","r","a","y"," ","y","o","g","a">>,
    <<"b","i","g"," ","r","e","d"," ","b","l","u","e"," ","g","r","e","e","n"," ",
      "p","i","n","k"," ","y","o","g","a"," ","g","r","a","y">> }

MaxWords == 2

\* the request texts: up to MaxWords phrases joined by single spaces
Messages ==
  FixedMessages \cup LongMessages \cup
  UNION {{Join(<<" ">>, [i \in 1..k |-> Vocabulary[f[i]]]) :
            f \in [1..k -> 1..Len(Vocabulary)]} : k \in 0..MaxWords}

BackendOutcomes == {BackendError, BackendNone} \cup {BackendText(t) : t \in AiTexts}

Catalogs == {<<>>, TestCatalog, AiLogicCatalog, SeedCatalog}

Init ==
  /\ catalog \in Catalogs
  /\ reviews = <<>>
  /\ interactions = <<>>
  /\ apiKey \in BOOLEAN
  /\ resp = NoResponse
  /\ inflight = NoRequests

Search == \E q \in Messages : api_search(Anonymous, q)

Chat == \E m \in Messages, b \in BackendOutcomes : api_chat(m, b)

\* the client takes the response; the next request can be served
Deliver ==
  /\ resp # NoResponse
  /\ resp' = NoResponse
  /\ UNCHANGED <<catalog, reviews, interactions, apiKey, inflight>>

Next == Search \/ Chat \/ Deliver

Spec == Init /\ [][Next]_vars

\* a catalog in which several products have the same price, more products
\* than a chat reply lists
TiePrices == <<2000, 5000, 2000, 5000, 8000, 2000>>

TieCatalog ==
  [i \in 1..Len(TiePrices) |->
     Product(i, <<"I","t","e","m"," ">> \o FormatInt(i), <<"H","o","m","e">>, TiePrices[i],
             <<"h","o","m","e">>, <<>>)]

InitTies ==
  /\ catalog = TieCatalog
  /\ reviews = <<>>
  /\ interactions = <<>>
  /\ apiKey \in BOOLEAN
  /\ resp = NoResponse
  /\ inflight = NoRequests

SpecTies == InitTies /\ [][Next]_vars

-----------------------------------------------------------------------------
(* answers of the backend to the ranking prompt                            *)

\* answers to the ranking prompt that are no JSON, JSON of another shape, or fenced
JsonShapes ==
  { <<>>,
     <<"S","o","r","r","y",","," ","I"," ","c","a","n","n","o","t"," ","r","a","n","k"," ",
       "t","h","e","s","e"," ","p","r","o","d","u","c","t","s",".">>,
     <<"[","1",","," ","2","]">>,
     <<"3">>,
     <<"n","u","l","l">>,
     <<"{","\"","i","d","s","\"",":"," ","[","1","]","}">>,
     <<"{","\"","r","e","c","o","m","m","e","n","d","e","d","_","p","r","o","d","u","c","t",
       "_","i","d","s","\"",":"," ","5","}">>,
     <<"{","\"","r","e","c","o","m","m","e","n","d","e","d","_","p","r","o","d","u","c","t",
       "_","i","d","s","\"",":"," ","\"","1","2","\"","}">>,
     <<"{","\"","r","e","c","o","m","m","e","n","d","e","d","_","p","r","o","d","u","c","t",
       "_","i","d","s","\"",":"," ","n","u","l","l","}">>,
     <<"backtick","backtick","backtick","j","s","o","n","\n","{","\"","r","e","c","o","m",
       "m","e","n","d","e","d","_","p","r","o","d","u","c","t","_","i","d","s","\"",":"," ",
       "[","1","]","}","\n","backtick","backtick","backtick">> }

\* the elements an answered id list is built from
IdTokens ==
  << <<"1">>,
     <<"2">>,
     <<"9","9">>,
     <<"\"","2","\"">> >>

\* the answer format the prompt asks for, up to the ids
IdListOpen ==
  <<"{","\"","r","e","c","o","m","m","e","n","d","e","d","_","p","r","o","d","u","c","t",
    "_","i","d","s","\"",":"," ","[">>

MaxIds == 2

\* {"recommended_product_ids": [...]} with up to MaxIds elements
IdListTexts ==
  UNION {{IdListOpen \o Join(<<",", " ">>, [i \in 1..k |-> IdTokens[f[i]]]) \o <<"]", "}">> :
            f \in [1..k -> 1..Len(IdTokens)]} : k \in 0..MaxIds}

JsonOutcomes == {BackendText(t) : t \in JsonShapes \cup IdListTexts}

-----------------------------------------------------------------------------
(* the Gemini client called directly                                       *)

\* generate_text(prompt) called with the backend doing b
GenerateTextCall(b) ==
  LET gen == generate_text(apiKey, b)
  IN  /\ resp = NoResponse
      /\ resp' = [op |-> "generate_text", backend |-> b, raised |-> gen.raised,
                  text |-> gen.text]
      /\ UNCHANGED <<catalog, reviews, interactions, apiKey, inflight>>

\* generate_json(prompt) called with the backend doing b
GenerateJsonCall(b) ==
  LET gen == generate_json(apiKey, b)
  IN  /\ resp = NoResponse
      /\ resp' = [op |-> "generate_json", backend |-> b, raised |-> gen.raised,
                  value |-> gen.value]
      /\ UNCHANGED <<catalog, reviews, interactions, apiKey, inflight>>

InitGemini ==
  /\ catalog = <<>>
  /\ reviews = <<>>
  /\ interactions = <<>>
  /\ apiKey \in BOOLEAN
  /\ resp = NoResponse
  /\ inflight = NoRequests

NextGemini ==
  \/ \E b \in BackendOutcomes \cup JsonOutcomes : GenerateTextCall(b)
  \/ \E b \in BackendOutcomes \cup JsonOutcomes : GenerateJsonCall(b)
  \/ Deliver

SpecGemini == InitGemini /\ [][NextGemini]_vars

-----------------------------------------------------------------------------
(* views copy 3.py: product_detail, _recommend_products_for_user,          *)
(* api_recommendations                                                     *)

\* Interaction.objects.create(user=..., product=product, event_type="VIEW")
ViewInteraction(user, product_id) ==
  [user |-> user, event_type |-> "VIEW", product_id |-> product_id, query_text |-> <<>>]

\* a PURCHASE row, as seed_data.py creates them
PurchaseInteraction(user, product_id) ==
  [user |-> user, event_type |-> "PURCHASE", product_id |-> product_id, query_text |-> <<>>]

\* the ids of the Product rows
ProductIds == {catalog[k].id : k \in 1..Len(catalog)}

\* Product.objects.get(id=id), for an id of ProductIds
ProductById(id) == catalog[CHOOSE k \in 1..Len(catalog) : catalog[k].id = id]

\* the rows in the order they were created; order_by("-created_at") reverses it
Reverse(s) == [i \in 1..Len(s) |-> s[Len(s) + 1 - i]]

HistoryLimit == 50

CandidateLimit == 50

PopularLimit == 10

FallbackLimit == 10

\* the history taken from the PURCHASE rows of the user only
user_interactions_purchases(user) ==
  Take(Reverse(SelectSeq(interactions,
                         LAMBDA i : i.user = user /\ i.event_type = "PURCHASE")),
       HistoryLimit)

\* Interaction.objects.filter(user=user).order_by("-created_at")[:50]
user_interactions(user) ==
  Take(Reverse(SelectSeq(interactions, LAMBDA i : i.user = user)), HistoryLimit)

SignalLimit == 10

\* s[-n:]
LastOf(s, n) == IF Len(s) <= n THEN s ELSE SubSeq(s, Len(s) - n + 1, Len(s))

\* [i.product.name for i in interactions if i.event_type == event_type and i.product]
product_names(user, event_type) ==
  LET rows == SelectSeq(user_interactions(user),
                        LAMBDA i : i.event_type = event_type /\ i.product_id \in ProductIds)
  IN  [k \in 1..Len(rows) |-> ProductById(rows[k].product_id).name]

viewed(user) == product_names(user, "VIEW")

purchased(user) == product_names(user, "PURCHASE")

\* [i.query_text for i in interactions if i.event_type == "SEARCH" and i.query_text]
searched(user) ==
  LET rows == SelectSeq(user_interactions(user),
                        LAMBDA i : i.event_type = "SEARCH" /\ i.query_text # <<>>)
  IN  [k \in 1..Len(rows) |-> rows[k].query_text]

\* the lists under "User behavior:" in the prompt
prompt_signals(user) ==
  [viewed |-> LastOf(viewed(user), SignalLimit),
   purchased |-> LastOf(purchased(user), SignalLimit),
   searched |-> LastOf(searched(user), SignalLimit)]

\* no prompt is built
NoPrompt == [viewed |-> <<>>, purchased |-> <<>>, searched |-> <<>>]

\* filter(event_type="PURCHASE", product__isnull=False).values("product_id")
PurchasedIds ==
  {interactions[k].product_id :
     k \in {j \in 1..Len(interactions) :
              interactions[j].event_type = "PURCHASE" /\ interactions[j].product_id # 0}}

\* annotate(c=Count("product_id"))
PurchaseCount(id) ==
  Cardinality({k \in 1..Len(interactions) :
                 interactions[k].event_type = "PURCHASE" /\ interactions[k].product_id = id})

\* the id sets order_by("-c")[:10] can give: rows of equal c come in no
\* defined order, so any of them may fill the last places
PopularChoices ==
  LET n == IF Cardinality(PurchasedIds) < PopularLimit
             THEN Cardinality(PurchasedIds) ELSE PopularLimit
  IN  {T \in SUBSET PurchasedIds :
         /\ Cardinality(T) = n
         /\ \A a \in T, b \in PurchasedIds \ T : PurchaseCount(a) >= PurchaseCount(b)}

\* Product.objects.filter(id__in=ids): no order_by, the rows come by id
ProductsWithIds(ids) == SelectSeq(catalog, LAMBDA p : p.id \in ids)

\* data.get(key, default): the value of the last item with that key
DictGet(items, key, default) ==
  LET at == {k \in 1..Len(items) : items[k].k = key}
  IN  IF at = {} THEN default
      ELSE items[CHOOSE k \in at : \A j \in at : j <= k].v

RankingKey ==
  <<"r","e","c","o","m","m","e","n","d","e","d","_","p","r","o","d","u","c","t","_","i","d","s">>

\* a value a for loop can run over
IsIterable(v) == v.t \in {"list", "str", "dict"}

\* [i for i in ids if isinstance(i, int)]: the elements of a list that are int
\* (bool is a subclass of int: True is 1, False is 0); the characters of a str
\* and the keys of a dict are str, so none is kept
int_ids(v) ==
  IF v.t = "list"
    THEN LET kept == SelectSeq(v.v, LAMBDA e : e.t \in {"int", "bool"})
         IN  [k \in 1..Len(kept) |->
                IF kept[k].t = "int" THEN kept[k].v ELSE IF kept[k].v THEN 1 ELSE 0]
  ELSE <<>>

\* ordered = [found_map[i] for i in ids if i in found_map], found taken from
\* all Product rows
ordered_found(ids) ==
  LET hits == SelectSeq(ids, LAMBDA i : i \in ProductIds)
  IN  [k \in 1..Len(hits) |-> ProductById(hits[k])]

\* what the function gives: it raised (aiText: what generate_text had
\* returned, if it did), or it returned products
RecommendRaised(aiText) ==
  [raised |-> TRUE, branch |-> "raised", products |-> <<>>,
   aiCalled |-> TRUE, aiText |-> aiText]

RecommendResult(branch, products, aiCalled, aiText) ==
  [raised |-> FALSE, branch |-> branch, products |-> products,
   aiCalled |-> aiCalled, aiText |-> aiText]

\* _recommend_products_for_user(user); backend is what Gemini does if called,
\* popular the ids order_by("-c")[:10] yields
recommend_products_for_user(user, backend, popular) ==
  LET data == generate_json(apiKey, backend)
      text == generate_text(apiKey, backend).text
      raw == DictGet(data.value.v, RankingKey, JList(<<>>))
      ordered == ordered_found(int_ids(raw))
  IN  IF user_interactions(user) = <<>>
        THEN IF popular = {}
               THEN RecommendResult("first", Take(catalog, FallbackLimit), FALSE, <<>>)
             ELSE RecommendResult("popular", ProductsWithIds(popular), FALSE, <<>>)
      ELSE IF data.raised THEN RecommendRaised(<<>>)
      ELSE IF data.value.t # "dict" THEN RecommendRaised(text)
      ELSE IF ~IsIterable(raw) THEN RecommendRaised(text)
      ELSE IF ordered = <<>>
        THEN RecommendResult("fallback", Take(catalog, FallbackLimit), TRUE, text)
      ELSE RecommendResult("ai", ordered, TRUE, text)

\* seed_data.py: the users
Users == {"alice", "bob", "charlie"}

RecommendResponse(username, status, rec) ==
  [op |-> "recommend", message |-> <<>>, status |-> status, branch |-> rec.branch,
   results |-> rec.products, reply |-> <<>>, aiCalled |-> rec.aiCalled,
   aiText |-> rec.aiText, catalogRead |-> status # 404, user |-> username,
   prompt |-> IF rec.aiCalled THEN prompt_signals(username) ELSE NoPrompt]

\* GET /api/recommendations/<username>/
api_recommendations(username, backend, popular) ==
  LET rec == recommend_products_for_user(username, backend, popular)
  IN  /\ resp = NoResponse
      /\ resp' =
           IF username \notin Users
             THEN RecommendResponse(username, 404,
                                    RecommendResult("notfound", <<>>, FALSE, <<>>))
           ELSE IF rec.raised THEN RecommendResponse(username, 500, rec)
           ELSE RecommendResponse(username, 200, rec)
      /\ UNCHANGED <<catalog, reviews, interactions, apiKey, inflight>>

DetailResponse(user, status, results) ==
  [op |-> "detail", message |-> <<>>, status |-> status,
   branch |-> IF status = 404 THEN "notfound" ELSE "page", results |-> results,
   reply |-> <<>>, aiCalled |-> FALSE, aiText |-> <<>>, catalogRead |-> TRUE,
   user |-> user]

\* GET /products/<product_id>/ by user (Anonymous when not authenticated)
product_detail(user, product_id) ==
  /\ resp = NoResponse
  /\ interactions' =
       IF product_id \in ProductIds /\ user # Anonymous
         THEN Append(interactions, ViewInteraction(user, product_id))
         ELSE interactions
  /\ resp' = IF product_id \in ProductIds
               THEN DetailResponse(user, 200, <<ProductById(product_id)>>)
             ELSE DetailResponse(user, 404, <<>>)
  /\ UNCHANGED <<catalog, reviews, apiKey, inflight>>

-----------------------------------------------------------------------------
(* the recommendation requests                                             *)

\* a catalog with one product more than the candidates of the ranking prompt
BigCatalog ==
  [i \in 1..(CandidateLimit + 1) |->
     Product(i, <<"I","t","e","m"," ">> \o FormatInt(i), <<"H","o","m","e">>, 100 * i,
             <<"h","o","m","e">>, <<>>)]

\* purchases of charlie: product 2 twice, product 1 once
FewPurchases ==
  <<PurchaseInteraction("charlie", 2), PurchaseInteraction("charlie", 1),
    PurchaseInteraction("charlie", 2)>>

\* purchases of charlie: products 1 to 11 once each, then product 11 again
ManyPurchases ==
  [i \in 1..(PopularLimit + 2) |->
     PurchaseInteraction("charlie", IF i > PopularLimit + 1 THEN PopularLimit + 1 ELSE i)]

\* alice: views of products 1 to 11, then searches q1 to q11, then purchases
\* of products 1 to 11, one more of each kind than a signal list holds
LongHistory ==
  [i \in 1..(3 * (SignalLimit + 1)) |->
     IF i <= SignalLimit + 1 THEN ViewInteraction("alice", i)
     ELSE IF i <= 2 * (SignalLimit + 1)
       THEN SearchInteraction("alice", <<"q">> \o FormatInt(i - (SignalLimit + 1)))
     ELSE PurchaseInteraction("alice", i - 2 * (SignalLimit + 1))]

Histories == {<<>>, FewPurchases, ManyPurchases, LongHistory}

\* answers of the asked shape: no id, ids in another order than by id, unknown ids, a str, a repeated id,
\* more ids than the prompt's example, an id past the candidates, a bool
IdRankings ==
  { <<"{","\"","r","e","c","o","m","m","e","n","d","e","d","_","p","r","o","d","u","c","t",
       "_","i","d","s","\"",":"," ","[","]","}">>,
     <<"{","\"","r","e","c","o","m","m","e","n","d","e","d","_","p","r","o","d","u","c","t",
       "_","i","d","s","\"",":"," ","[","2",","," ","1","]","}">>,
     <<"{","\"","r","e","c","o","m","m","e","n","d","e","d","_","p","r","o","d","u","c","t",
       "_","i","d","s","\"",":"," ","[","9","9","]","}">>,
     <<"{","\"","r","e","c","o","m","m","e","n","d","e","d","_","p","r","o","d","u","c","t",
       "_","i","d","s","\"",":"," ","[","2",","," ","\"","2","\"",","," ","9","9",","," ",
       "1","]","}">>,
     <<"{","\"","r","e","c","o","m","m","e","n","d","e","d","_","p","r","o","d","u","c","t",
       "_","i","d","s","\"",":"," ","[","2",","," ","2","]","}">>,
     <<"{","\"","r","e","c","o","m","m","e","n","d","e","d","_","p","r","o","d","u","c","t",
       "_","i","d","s","\"",":"," ","[","1",","," ","1",","," ","1",","," ","1",","," ","1",
       ","," ","1",","," ","1",","," ","1",","," ","1",","," ","1",","," ","1","]","}">>,
     <<"{","\"","r","e","c","o","m","m","e","n","d","e","d","_","p","r","o","d","u","c","t",
       "_","i","d","s","\"",":"," ","[","5","1",","," ","2","]","}">>,
     <<"{","\"","r","e","c","o","m","m","e","n","d","e","d","_","p","r","o","d","u","c","t",
       "_","i","d","s","\"",":"," ","[","t","r","u","e",","," ","2","]","}">> }

RankingOutcomes ==
  {BackendError, BackendNone} \cup
  {BackendText(t) : t \in JsonShapes \cup IdRankings}

\* the texts searched for by a logged-in user
SearchQueries == {<<>>, <<" ", " ">>, <<" ", "y", "o", "g", "a", " ", "m", "a", "t", " ">>}

\* the product pages asked for
DetailIds == {1, CandidateLimit + 1}

MaxLogged == 1

\* the VIEW and SEARCH rows logged so far
LoggedCount ==
  Cardinality({k \in 1..Len(interactions) :
                 interactions[k].event_type \in {"VIEW", "SEARCH"}})

InitRecommend ==
  /\ catalog \in {TestCatalog, BigCatalog}
  /\ reviews = <<>>
  /\ interactions \in {h \in Histories :
                          \A k \in 1..Len(h) : h[k].product_id \in ProductIds \cup {0}}
  /\ apiKey \in BOOLEAN
  /\ resp = NoResponse
  /\ inflight = NoRequests

Recommend ==
  \E u \in {"alice", "bob", "nobody"}, b \in RankingOutcomes, popular \in PopularChoices :
    api_recommendations(u, b, popular)

ViewProduct ==
  /\ LoggedCount < MaxLogged
  /\ \E u \in {"alice", Anonymous}, id \in DetailIds : product_detail(u, id)

SearchBy ==
  /\ LoggedCount < MaxLogged
  /\ \E u \in {"alice", Anonymous}, q \in SearchQueries : api_search(u, q)

NextRecommend == Recommend \/ ViewProduct \/ SearchBy \/ Deliver

SpecRecommend == InitRecommend /\ [][NextRecommend]_vars

-----------------------------------------------------------------------------
(* views copy 3.py: basic_review_summary, api_summarize_reviews,           *)
(* api_generate_description                                                *)

\* a Review row
Review(id, product_id, rating, text) ==
  [id |-> id, product_id |-> product_id, rating |-> rating, text |-> text]

pros_keywords ==
  << <<"g","r","e","a","t">>,
     <<"g","o","o","d">>,
     <<"p","e","r","f","e","c","t">>,
     <<"l","o","v","e">>,
     <<"v","a","l","u","e">>,
     <<"w","o","r","k","s">>,
     <<"q","u","a","l","i","t","y">> >>

cons_keywords ==
  << <<"b","a","d">>,
     <<"p","o","o","r">>,
     <<"d","i","s","a","p","p","o","i","n","t","e","d">>,
     <<"d","u","r","a","b","l","e">>,
     <<"w","o","r","s","e">>,
     <<"p","r","o","b","l","e","m">>,
     <<"o","k","a","y">> >>

NoReviewsYet ==
  <<"N","o"," ","r","e","v","i","e","w","s"," ","y","e","t",".">>

NoProsPlaceholder ==
  <<"N","o"," ","s","t","r","o","n","g"," ","p","r","o","s"," ","d","e","t","e","c","t","e",
    "d"," ","f","r","o","m"," ","t","e","x","t",".">>

NoConsPlaceholder ==
  <<"N","o"," ","s","t","r","o","n","g"," ","c","o","n","s"," ","d","e","t","e","c","t","e",
    "d"," ","f","r","o","m"," ","t","e","x","t",".">>

SentimentPrefix ==
  <<"O","v","e","r","a","l","l"," ","s","e","n","t","i","m","e","n","t",":"," ","a","v","e",
    "r","a","g","e"," ","r","a","t","i","n","g"," ","i","s"," ">>

SentimentMiddle ==
  <<"/","5"," ","f","r","o","m"," ">>

SentimentSuffix ==
  <<" ","r","e","v","i","e","w","(","s",")",".">>

TopPros ==
  <<"T","o","p"," ","p","r","o","s",":">>

TopCons ==
  <<"T","o","p"," ","c","o","n","s",":">>

\* the note appended to the basic summary (line 299)
QuotaNotice ==
  <<"\n","\n","(","N","o","t","e",":"," ","A","I"," ","q","u","o","t","a"," ","r","e","a",
    "c","h","e","d",","," ","s","h","o","w","i","n","g"," ","b","a","s","i","c"," ","s","u",
    "m","m","a","r","y",".",")">>

NoReviewsError ==
  <<"N","o"," ","r","e","v","i","e","w","s"," ","t","o"," ","s","u","m","m","a","r","i","z",
    "e">>

EmptyTextError ==
  <<"G","e","m","i","n","i"," ","r","e","t","u","r","n","e","d"," ","e","m","p","t","y"," ",
    "t","e","x","t">>

ReviewLimit == 20

\* product.reviews.all().order_by("-created_at")[:20]
product_reviews(product_id) ==
  Take(Reverse(SelectSeq(reviews, LAMBDA r : r.product_id = product_id)), ReviewLimit)

\* sum(r.rating for r in reviews)
RECURSIVE SumRatings(_)
SumRatings(revs) ==
  IF revs = <<>> THEN 0 ELSE Head(revs).rating + SumRatings(Tail(revs))

\* the odd m below 100, no multiple of 5, for which the double nearest to m/20
\* lies above m/20, so that the average m/20 is formatted upward
HalfUp == {1, 9, 11, 13, 21, 27, 31, 37, 47, 49, 57, 59, 67, 69, 77, 79, 83, 89, 93, 99}

\* f"{avg:.1f}" for avg = total / n, 0 <= avg <= 5: the decimal nearest to the
\* double; a double that is exactly a half (a multiple of 1/4) goes to the
\* even digit
FormatAvg(total, n) ==
  LET q == (10 * total) \div n
      r == (10 * total) % n
      m == 2 * q + 1
      up == IF 2 * r > n THEN TRUE
            ELSE IF 2 * r < n THEN FALSE
            ELSE IF m % 5 = 0 THEN q % 2 = 1
            ELSE m \in HalfUp
      t == IF up THEN q + 1 ELSE q
  IN  FormatInt(t \div 10) \o <<".">> \o FormatInt(t % 10)

\* the texts of the reviews whose lowered text holds one of the keywords
matching_texts(revs, keywords) ==
  LET hits == SelectSeq(revs, LAMBDA r : ContainsAny(keywords, Lower(r.text)))
  IN  [k \in 1..Len(hits) |-> hits[k].text]

\* the last three matches instead of the first three
summary_list_last(matches, placeholder) ==
  IF matches # <<>>
    THEN SubSeq(matches, IF Len(matches) > 3 THEN Len(matches) - 2 ELSE 1, Len(matches))
  ELSE <<placeholder>>

\* pros = pros[:3] if pros else [placeholder]
summary_list(matches, placeholder) ==
  IF matches # <<>> THEN Take(matches, 3) ELSE <<placeholder>>

\* the bullet lines of a list
bullets(items) == [k \in 1..Len(items) |-> <<"-", " ">> \o items[k]]

basic_review_summary(revs) ==
  LET pros == summary_list(matching_texts(revs, pros_keywords), NoProsPlaceholder)
      cons == summary_list(matching_texts(revs, cons_keywords), NoConsPlaceholder)
      first == SentimentPrefix \o FormatAvg(SumRatings(revs), Len(revs)) \o
               SentimentMiddle \o FormatInt(Len(revs)) \o SentimentSuffix
  IN  IF revs = <<>> THEN NoReviewsYet
      ELSE Join(<<"\n">>, <<first, <<>>, TopPros>> \o bullets(pros) \o
                          <<<<>>, TopCons>> \o bullets(cons))

\* the position of the product in the Product rows
RowOf(product_id) == CHOOSE k \in 1..Len(catalog) : catalog[k].id = product_id

ProductResponse(op, product_id, status, branch, reply, aiCalled, aiText) ==
  [op |-> op, message |-> <<>>, status |-> status, branch |-> branch,
   results |-> <<>>, reply |-> reply, aiCalled |-> aiCalled, aiText |-> aiText,
   catalogRead |-> TRUE, product_id |-> product_id]

\* api_summarize_reviews without the test of lines 279-280
api_summarize_reviews_no_check(product_id, backend) ==
  LET revs == product_reviews(product_id)
      gen == generate_text(apiKey, backend)
      text == IF gen.text # <<>> THEN gen.text
              ELSE basic_review_summary(revs) \o QuotaNotice
      saved == product_id \in ProductIds /\ ~gen.raised
  IN  /\ resp = NoResponse
      /\ resp' =
           IF product_id \notin ProductIds
             THEN ProductResponse("summarize", product_id, 404, "notfound", <<>>, FALSE, <<>>)
           ELSE IF gen.raised
             THEN ProductResponse("summarize", product_id, 500, "raised", <<>>, TRUE, <<>>)
           ELSE ProductResponse("summarize", product_id, 200,
                                IF gen.text # <<>> THEN "ai" ELSE "fallback",
                                text, TRUE, gen.text)
      /\ catalog' = IF saved
                      THEN [catalog EXCEPT ![RowOf(product_id)].ai_review_summary = text]
                    ELSE catalog
      /\ UNCHANGED <<reviews, interactions, apiKey, inflight>>

\* POST /api/products/<product_id>/summarize-reviews/
api_summarize_reviews(product_id, backend) ==
  LET revs == product_reviews(product_id)
      gen == generate_text(apiKey, backend)
      text == IF gen.text # <<>> THEN gen.text
              ELSE basic_review_summary(revs) \o QuotaNotice
      saved == product_id \in ProductIds /\ revs # <<>> /\ ~gen.raised
  IN  /\ resp = NoResponse
      /\ resp' =
           IF product_id \notin ProductIds
             THEN ProductResponse("summarize", product_id, 404, "notfound", <<>>, FALSE, <<>>)
           ELSE IF revs = <<>>
             THEN ProductResponse("summarize", product_id, 400, "noreviews",
                                  NoReviewsError, FALSE, <<>>)
           ELSE IF gen.raised
             THEN ProductResponse("summarize", product_id, 500, "raised", <<>>, TRUE, <<>>)
           ELSE ProductResponse("summarize", product_id, 200,
                                IF gen.text # <<>> THEN "ai" ELSE "fallback",
                                text, TRUE, gen.text)
      /\ catalog' = IF saved
                      THEN [catalog EXCEPT ![RowOf(product_id)].ai_review_summary = text]
                    ELSE catalog
      /\ UNCHANGED <<reviews, interactions, apiKey, inflight>>

\* api_generate_description adding the text to the stored description
api_generate_description_append(product_id, backend) ==
  LET gen == generate_text(apiKey, backend)
      saved == product_id \in ProductIds /\ ~gen.raised /\ gen.text # <<>>
  IN  /\ resp = NoResponse
      /\ resp' =
           IF product_id \notin ProductIds
             THEN ProductResponse("describe", product_id, 404, "notfound", <<>>, FALSE, <<>>)
           ELSE IF gen.raised
             THEN ProductResponse("describe", product_id, 500, "raised", <<>>, TRUE, <<>>)
           ELSE IF gen.text = <<>>
             THEN ProductResponse("describe", product_id, 502, "empty",
                                  EmptyTextError, TRUE, <<>>)
           ELSE ProductResponse("describe", product_id, 200, "ai",
                                catalog[RowOf(product_id)].ai_description \o gen.text,
                                TRUE, gen.text)
      /\ catalog' = IF saved
                      THEN [catalog EXCEPT ![RowOf(product_id)].ai_description = @ \o gen.text]
                    ELSE catalog
      /\ UNCHANGED <<reviews, interactions, apiKey, inflight>>

\* POST /api/products/<product_id>/generate-description/
api_generate_description(product_id, backend) ==
  LET gen == generate_text(apiKey, backend)
      saved == product_id \in ProductIds /\ ~gen.raised /\ gen.text # <<>>
  IN  /\ resp = NoResponse
      /\ resp' =
           IF product_id \notin ProductIds
             THEN ProductResponse("describe", product_id, 404, "notfound", <<>>, FALSE, <<>>)
           ELSE IF gen.raised
             THEN ProductResponse("describe", product_id, 500, "raised", <<>>, TRUE, <<>>)
           ELSE IF gen.text = <<>>
             THEN ProductResponse("describe", product_id, 502, "empty",
                                  EmptyTextError, TRUE, <<>>)
           ELSE ProductResponse("describe", product_id, 200, "ai", gen.text, TRUE, gen.text)
      /\ catalog' = IF saved
                      THEN [catalog EXCEPT ![RowOf(product_id)].ai_description = gen.text]
                    ELSE catalog
      /\ UNCHANGED <<reviews, interactions, apiKey, inflight>>

-----------------------------------------------------------------------------
(* the product requests                                                    *)

GreatText ==
  <<"G","r","e","a","t"," ","q","u","a","l","i","t","y"," ","a","n","d"," ","w","o","r","k",
    "s"," ","p","e","r","f","e","c","t","l","y",".">>

OkayText ==
  <<"I","t","rsquo","s"," ","o","k","a","y",","," ","b","u","t"," ","c","o","u","l","d"," ",
    "b","e"," ","b","e","t","t","e","r",".">>

MixedText ==
  <<"G","o","o","d"," ","s","o","u","n","d",","," ","p","o","o","r"," ","b","a","t","t","e",
    "r","y",".">>

PlainText ==
  <<"A","r","r","i","v","e","d"," ","o","n"," ","t","i","m","e",".">>

\* what Gemini answers to the description and summary prompts
DescriptionTexts ==
  { <<" ","\n">>,
     <<"C","o","m","p","a","c","t"," ","e","a","r","b","u","d","s"," ","f","o","r"," ","m",
       "u","s","i","c"," ","a","n","d"," ","c","a","l","l","s",".","\n">>,
     <<"A"," ","m","a","t"," ","f","o","r"," ","y","o","g","a",".">> }

DescriptionOutcomes ==
  {BackendError, BackendNone} \cup {BackendText(t) : t \in DescriptionTexts}

\* two reviews of product 1, none of the other products
TwoReviews == <<Review(1, 1, 5, GreatText), Review(2, 1, 3, OkayText)>>

\* the products asked for: with reviews, without, unknown
RequestedIds == {1, 2, 99}

\* product 2 keeps a summary stored while it had reviews; the reviews were
\* deleted since (admin.py registers Review)
SummarizedCatalog ==
  [TestCatalog EXCEPT ![2].ai_review_summary = <<"M","o","s","t","l","y"," ","g","o","o","d",".">>]

InitProduct ==
  /\ catalog \in {TestCatalog, SummarizedCatalog}
  /\ reviews = TwoReviews
  /\ interactions = <<>>
  /\ apiKey \in BOOLEAN
  /\ resp = NoResponse
  /\ inflight = NoRequests

GenerateDescription ==
  \E id \in RequestedIds, b \in DescriptionOutcomes : api_generate_description(id, b)

SummarizeReviews ==
  \E id \in RequestedIds, b \in DescriptionOutcomes : api_summarize_reviews(id, b)

NextProduct == GenerateDescription \/ SummarizeReviews \/ Deliver

SpecProduct == InitProduct /\ [][NextProduct]_vars

-----------------------------------------------------------------------------
(* a description request and a summary request served at the same time     *)

\* product = get_object_or_404(Product, id=product_id), line 250
describe_get(product_id) ==
  /\ inflight["describe"].pc = "start"
  /\ inflight' =
       [inflight EXCEPT !["describe"] =
          IF product_id \in ProductIds
            THEN RequestState("loaded", catalog[RowOf(product_id)], <<>>, <<>>, 0)
          ELSE RequestState("done", NoProduct, <<>>, <<>>, 404)]
  /\ UNCHANGED <<catalog, reviews, interactions, apiKey, resp>>

\* text = generate_text(prompt) and the test of lines 263-264
describe_generate(backend) ==
  LET gen == generate_text(apiKey, backend)
      mine == inflight["describe"]
  IN  /\ mine.pc = "loaded"
      /\ inflight' =
           [inflight EXCEPT !["describe"] =
              IF gen.raised THEN RequestState("done", mine.product, <<>>, <<>>, 500)
              ELSE IF gen.text = <<>>
                THEN RequestState("done", mine.product, <<>>, EmptyTextError, 502)
              ELSE RequestState("generated", mine.product, <<>>, gen.text, 0)]
      /\ UNCHANGED <<catalog, reviews, interactions, apiKey, resp>>

\* product.ai_description = text; product.save(), lines 266-268: save()
\* writes every field of the instance to the row
describe_save ==
  LET mine == inflight["describe"]
      instance == [mine.product EXCEPT !.ai_description = mine.text]
  IN  /\ mine.pc = "generated"
      /\ catalog' = [catalog EXCEPT ![RowOf(instance.id)] = instance]
      /\ inflight' = [inflight EXCEPT !["describe"] =
                        RequestState("done", instance, <<>>, instance.ai_description, 200)]
      /\ UNCHANGED <<reviews, interactions, apiKey, resp>>

\* product = get_object_or_404(...); reviews = list(...), lines 276-280
summarize_get(product_id) ==
  /\ inflight["summarize"].pc = "start"
  /\ inflight' =
       [inflight EXCEPT !["summarize"] =
          IF product_id \notin ProductIds
            THEN RequestState("done", NoProduct, <<>>, <<>>, 404)
          ELSE IF product_reviews(product_id) = <<>>
            THEN RequestState("done", catalog[RowOf(product_id)], <<>>, NoReviewsError, 400)
          ELSE RequestState("loaded", catalog[RowOf(product_id)],
                            product_reviews(product_id), <<>>, 0)]
  /\ UNCHANGED <<catalog, reviews, interactions, apiKey, resp>>

\* text = generate_text(prompt) and the fallback of lines 298-299
summarize_generate(backend) ==
  LET gen == generate_text(apiKey, backend)
      mine == inflight["summarize"]
  IN  /\ mine.pc = "loaded"
      /\ inflight' =
           [inflight EXCEPT !["summarize"] =
              IF gen.raised THEN RequestState("done", mine.product, mine.revs, <<>>, 500)
              ELSE RequestState("generated", mine.product, mine.revs,
                                IF gen.text # <<>> THEN gen.text
                                ELSE basic_review_summary(mine.revs) \o QuotaNotice, 0)]
      /\ UNCHANGED <<catalog, reviews, interactions, apiKey, resp>>

\* product.ai_review_summary = text; product.save(), lines 301-303
summarize_save ==
  LET mine == inflight["summarize"]
      instance == [mine.product EXCEPT !.ai_review_summary = mine.text]
  IN  /\ mine.pc = "generated"
      /\ catalog' = [catalog EXCEPT ![RowOf(instance.id)] = instance]
      /\ inflight' = [inflight EXCEPT !["summarize"] =
                        RequestState("done", instance, mine.revs,
                                     instance.ai_review_summary, 200)]
      /\ UNCHANGED <<reviews, interactions, apiKey, resp>>

\* both requests have arrived and none has run a line yet
InitConcurrent ==
  /\ catalog \in {TestCatalog, SummarizedCatalog}
  /\ reviews = TwoReviews
  /\ interactions = <<>>
  /\ apiKey \in BOOLEAN
  /\ resp = NoResponse
  /\ inflight = [r \in {"describe", "summarize"} |->
                   RequestState("start", NoProduct, <<>>, <<>>, 0)]

NextConcurrent ==
  \/ \E id \in RequestedIds : describe_get(id)
  \/ \E b \in DescriptionOutcomes : describe_generate(b)
  \/ describe_save
  \/ \E id \in RequestedIds : summarize_get(id)
  \/ \E b \in DescriptionOutcomes : summarize_generate(b)
  \/ summarize_save

SpecConcurrent == InitConcurrent /\ [][NextConcurrent]_vars

-----------------------------------------------------------------------------
(* the basic summary of every list of reviews                              *)

\* rating and text of the reviews a list is drawn from: matching the pros
\* keywords, the cons keywords, both, none
ReviewPool == <<[rating |-> 5, text |-> GreatText], [rating |-> 3, text |-> OkayText],
                [rating |-> 4, text |-> MixedText], [rating |-> 1, text |-> PlainText]>>

MaxReviews == 4

\* the Review tables with up to MaxReviews reviews of product 1, oldest first
ReviewTables ==
  UNION {{[i \in 1..n |-> Review(i, 1, ReviewPool[f[i]].rating, ReviewPool[f[i]].text)] :
            f \in [1..n -> 1..Len(ReviewPool)]} : n \in 0..MaxReviews}

InitSummary ==
  /\ catalog = Take(TestCatalog, 1)
  /\ reviews \in ReviewTables
  /\ interactions = <<>>
  /\ apiKey = TRUE
  /\ resp = NoResponse
  /\ inflight = NoRequests

\* the summary is asked for while Gemini gives no text
SummarizeWithoutAi == \E b \in {BackendError, BackendNone} : api_summarize_reviews(1, b)

NextSummary == SummarizeWithoutAi \/ Deliver

SpecSummary == InitSummary /\ [][NextSummary]_vars

-----------------------------------------------------------------------------
(* Properties of the price filter and the ordering                         *)

\* the integers written in s: one per maximal run of digits
NumbersIn(s) ==
  {ParseInt(SubSeq(s, i, DigitRunEnd(s, i))) :
     i \in {j \in 1..Len(s) : IsDigit(s[j]) /\ (j = 1 \/ ~IsDigit(s[j - 1]))}}

\* s contains "<word> $<n>", the digits of n not followed by another digit
HasPricePhrase(s, word, n) ==
  LET phrase == word \o <<" ", "$">> \o FormatInt(n)
  IN  \E i \in 0..(Len(s) - Len(phrase)) :
        /\ OccursAt(phrase, s, i)
        /\ i + Len(phrase) = Len(s) \/ ~IsDigit(s[i + Len(phrase) + 1])

\* "under $n" or "below $n"
HasUnderPhrase(s, n) ==
  HasPricePhrase(s, <<"u","n","d","e","r">>, n) \/ HasPricePhrase(s, <<"b","e","l","o","w">>, n)

\* "above $n" or "over $n"
HasOverPhrase(s, n) ==
  HasPricePhrase(s, <<"a","b","o","v","e">>, n) \/ HasPricePhrase(s, <<"o","v","e","r">>, n)

\* the response answers a search, or a chat message whose products were retrieved
IsQueryResponse == resp.op = "search" \/ (resp.op = "chat" /\ resp.branch # "rejection")

RequestText == Lower(resp.message)

\* every returned product costs at most / at least n dollars
AllAtMost(n) == \A i \in 1..Len(resp.results) : resp.results[i].price <= 100 * n

AllAtLeast(n) == \A i \in 1..Len(resp.results) : resp.results[i].price >= 100 * n

NonDecreasingPrice(ps) == \A i \in 1..(Len(ps) - 1) : ps[i].price <= ps[i + 1].price

NonIncreasingPrice(ps) == \A i \in 1..(Len(ps) - 1) : ps[i].price >= ps[i + 1].price

\* the under-words of the endpoint that answered
WantsUnder ==
  IF resp.op = "search" THEN search_wants_under(RequestText)
  ELSE chat_wants_under(RequestText)

\* C1 as claimed: a search query or chat message containing "under $N" or
\* "below $N" returns only products with price <= N, whatever else the text holds.
C1_UnderPhraseBoundsPrice ==
  IsQueryResponse =>
    \A n \in NumbersIn(RequestText) :
      HasUnderPhrase(RequestText, n) => AllAtMost(n)

\* C1 as amended: when N is also the first integer written in the text, every
\* returned product has price <= N.
C1_UnderFirstAmountBoundsPrice ==
  IsQueryResponse =>
    \A n \in NumbersIn(RequestText) :
      HasUnderPhrase(RequestText, n) /\ re_search_amount(RequestText) = n
        => AllAtMost(n)

\* an "under $N" request with other words that returned a product while the
\* catalog holds a dearer one
C1_Witness ==
  /\ IsQueryResponse
  /\ \E n \in NumbersIn(RequestText) :
       /\ HasUnderPhrase(RequestText, n) /\ re_search_amount(RequestText) = n
       /\ \E i \in 1..Len(catalog) : catalog[i].price > 100 * n
  /\ Len(re_findall_alpha(RequestText)) > 1
  /\ resp.results # <<>>

\* C2 as claimed: a search query or chat message containing "under $N" or
\* "below $N" returns its products in non-decreasing price order.
C2_UnderPhraseAscending ==
  IsQueryResponse =>
    \A n \in NumbersIn(RequestText) :
      HasUnderPhrase(RequestText, n) => NonDecreasingPrice(resp.results)

\* C3 as claimed: a search query or chat message containing "above $N" or
\* "over $N" returns only products with price >= N, whatever else the text holds.
C3_OverPhraseBoundsPrice ==
  IsQueryResponse =>
    \A n \in NumbersIn(RequestText) :
      HasOverPhrase(RequestText, n) => AllAtLeast(n)

\* C3 as amended: when N is also the first integer written in the text and the
\* text holds none of the endpoint's under-words, every returned product has
\* price >= N.
C3_OverFirstAmountBoundsPrice ==
  IsQueryResponse =>
    \A n \in NumbersIn(RequestText) :
      HasOverPhrase(RequestText, n) /\ re_search_amount(RequestText) = n /\ ~WantsUnder
        => AllAtLeast(n)

\* an "above $N" request with other words that returned a product while the
\* catalog holds a cheaper one
C3_Witness ==
  /\ IsQueryResponse
  /\ \E n \in NumbersIn(RequestText) :
       /\ HasOverPhrase(RequestText, n) /\ re_search_amount(RequestText) = n /\ ~WantsUnder
       /\ \E i \in 1..Len(catalog) : catalog[i].price < 100 * n
  /\ Len(re_findall_alpha(RequestText)) > 1
  /\ resp.results # <<>>

\* C4 as claimed: a search query or chat message containing "above $N" or
\* "over $N" returns its products in non-increasing price order.
C4_OverPhraseDescending ==
  IsQueryResponse =>
    \A n \in NumbersIn(RequestText) :
      HasOverPhrase(RequestText, n) => NonIncreasingPrice(resp.results)

-----------------------------------------------------------------------------
(* Properties of the chat reply                                            *)

\* s.split("\n")
RECURSIVE SplitLines(_)
SplitLines(s) ==
  LET nl == {i \in 1..Len(s) : s[i] = "\n"}
  IN  IF nl = {} THEN <<s>>
      ELSE LET first == CHOOSE i \in nl : \A j \in nl : i <= j
           IN  <<SubSeq(s, 1, first - 1)>> \o SplitLines(SubSeq(s, first + 1, Len(s)))

\* a chat request that retrieved products and got an answer from generate_text
ChatAnswered == resp.op = "chat" /\ resp.branch \in {"ai", "fallback"}

\* the title api_chat chose for the request
ExpectedTitle == chat_title_of(Strip(resp.message))

\* the last line of the notice, after its two line breaks
NoticeLine == SubSeq(BusyNotice, 3, Len(BusyNotice))

\* the reply is the title, one line per retrieved product, a blank line, the notice
IsDeterministicListing ==
  LET lines == SplitLines(resp.reply)
      n == Len(resp.results)
  IN  /\ Len(lines) = n + 3
      /\ lines[1] = ExpectedTitle
      /\ \A i \in 1..n : lines[i + 1] = product_line(resp.results[i])
      /\ lines[n + 2] = <<>>
      /\ lines[n + 3] = NoticeLine

\* C6 as claimed: api_chat never raises and its reply is never empty, whatever
\* the message and whatever the AI backend does.
C6_ChatAlwaysReplies ==
  resp.op = "chat" => resp.branch # "raised" /\ resp.status # 500 /\ resp.reply # <<>>

\* C7: with products retrieved, the reply is the AI text exactly when that text
\* is non-empty; otherwise it is the deterministic listing followed by the
\* notice, and holds the name of every retrieved product.
C7_ReplyIsAiTextOrListing ==
  ChatAnswered =>
    /\ resp.aiText # <<>> <=> resp.reply = resp.aiText
    /\ resp.aiText = <<>> =>
         /\ IsDeterministicListing
         /\ \A i \in 1..Len(resp.results) : Contains(resp.results[i].name, resp.reply)

\* the AI gave no text and the reply lists several retrieved products
C7_Witness ==
  /\ ChatAnswered
  /\ resp.aiText = <<>>
  /\ Len(resp.results) > 1
  /\ resp.branch = "fallback"

\* the product with the highest price of a non-empty catalog
HighestPriced == CHOOSE i \in 1..Len(catalog) : \A j \in 1..Len(catalog) : catalog[j].price <= catalog[i].price

\* the message of tests_ai_logic.py test_chat_high_price_no_number_returns_expensive
HigherPriceProducts ==
  <<"h","i","g","h","e","r"," ","p","r","i","c","e"," ","p","r","o","d","u","c","t","s">>

\* C8 as claimed: when the AI gives no text, "higher price products" on a
\* non-empty catalog is answered with the deterministic listing, which names the
\* highest-priced product; on the tests' catalog "Smart Watch" and not "Yoga Mat".
C8_HigherPriceProductsListsDearest ==
  /\ resp.op = "chat"
  /\ resp.message = HigherPriceProducts
  /\ catalog # <<>>
  /\ resp.branch \notin {"ai", "raised"}
  => /\ resp.branch = "fallback"
     /\ Contains(catalog[HighestPriced].name, resp.reply)
     /\ catalog = TestCatalog =>
          /\ Contains(TestCatalog[3].name, resp.reply)
          /\ ~Contains(TestCatalog[2].name, resp.reply)

\* C9: a chat message with a high-price phrase and no number gets the
\* "higher-priced products" title and its products in descending price order.
C9_HighPhraseTitleAndOrder ==
  /\ resp.op = "chat"
  /\ resp.branch \in {"ai", "fallback"}
  /\ chat_wants_high(RequestText)
  /\ re_search_amount(RequestText) = NoAmount
  => /\ NonIncreasingPrice(resp.results)
     /\ resp.branch = "fallback" => SplitLines(resp.reply)[1] = TitleHigh

\* a high-price message without a number answered with a listing of products
\* of different prices
C9_Witness ==
  /\ resp.op = "chat"
  /\ resp.branch = "fallback"
  /\ chat_wants_high(RequestText)
  /\ re_search_amount(RequestText) = NoAmount
  /\ Len(resp.results) > 1
  /\ resp.results[1].price > resp.results[Len(resp.results)].price

\* the products of the catalog that were not retrieved for the request
NotRetrieved == {p \in Range(catalog) : p \notin Range(resp.results)}

\* C10 as claimed: whatever the AI returns, the reply names no catalog product
\* outside the products retrieved for the message.
C10_ReplyNamesOnlyRetrieved ==
  resp.op = "chat" /\ resp.status = 200 =>
    \A p \in NotRetrieved : ~Contains(p.name, resp.reply)

\* C10 as amended: when the AI text is empty, every product line of the reply
\* renders a retrieved product and no line renders any other catalog product.
C10_FallbackListsOnlyRetrieved ==
  resp.op = "chat" /\ resp.branch = "fallback" =>
    LET lines == SplitLines(resp.reply)
    IN  /\ \A k \in 1..Len(lines) :
             (Len(lines[k]) >= 2 /\ SubSeq(lines[k], 1, 2) = <<"-", " ">>)
               => \E i \in 1..Len(resp.results) : lines[k] = product_line(resp.results[i])
        /\ \A p \in NotRetrieved : \A k \in 1..Len(lines) : lines[k] # product_line(p)

\* a fallback listing given while the catalog holds products that were not retrieved
C10_Witness ==
  /\ resp.op = "chat"
  /\ resp.branch = "fallback"
  /\ resp.results # <<>>
  /\ NotRetrieved # {}

-----------------------------------------------------------------------------
(* Properties of the Gemini client                                         *)

\* C5 as claimed: generate_text never raises, whatever the prompt and whatever
\* fails (quota, network, malformed response, missing API key); generate_json
\* never raises either and returns a mapping.
C5_GeminiNeverRaises ==
  /\ resp.op = "generate_text" => ~resp.raised
  /\ resp.op = "generate_json" => ~resp.raised /\ resp.value.t = "dict"

-----------------------------------------------------------------------------
(* Properties of the early returns of api_chat                             *)

\* C11: a chat request whose message is empty or only whitespace gets the
\* fixed rejection with status 400; the AI backend is not called, the catalog
\* is not read and no stored state changes.
C11_EmptyMessageRejected ==
  [][(resp'.op = "chat" /\ Strip(resp'.message) = <<>>) =>
       /\ resp'.status = 400
       /\ resp'.reply = RejectionReply
       /\ ~resp'.aiCalled
       /\ ~resp'.catalogRead
       /\ UNCHANGED <<catalog, reviews, interactions, apiKey, inflight>>]_vars

\* a whitespace-only message was rejected while the catalog holds products
C11_Witness ==
  /\ resp.op = "chat"
  /\ resp.message # <<>>
  /\ Strip(resp.message) = <<>>
  /\ resp.branch = "rejection"
  /\ catalog # <<>>

\* C12: when retrieval for a chat message finds no product, the reply is the
\* fixed no-match guidance and the AI backend is not called in that request.
C12_NoMatchSkipsAi ==
  /\ resp.op = "chat"
  /\ Strip(resp.message) # <<>>
  /\ chat_products(catalog, Strip(resp.message)) = <<>>
  => /\ resp.status = 200
     /\ resp.reply = NoMatchReply
     /\ ~resp.aiCalled

\* no product matched on a non-empty catalog, with the API key missing
C12_Witness ==
  /\ resp.op = "chat"
  /\ resp.branch = "nomatch"
  /\ catalog # <<>>
  /\ ~apiKey

-----------------------------------------------------------------------------
(* Properties of the recommendations                                       *)

\* a recommendation request of a known user
IsRecommendation == resp.op = "recommend" /\ resp.user \in Users

\* the user of the request has interactions, so the ranking is asked of the AI
HasHistory == \E k \in 1..Len(interactions) : interactions[k].user = resp.user

\* the products sent in the ranking prompt
Candidates == Take(catalog, CandidateLimit)

\* the first ten products by id
FirstTen == Take(catalog, 10)

\* the value the AI text holds under "recommended_product_ids", if the text is
\* a JSON object with that key
AiRanking ==
  LET parsed == json_loads(resp.aiText)
  IN  IF parsed.ok /\ parsed.val.t = "dict"
        THEN DictGet(parsed.val.v, RankingKey, JNone)
      ELSE JNone

\* the AI text is a JSON object whose id list names at least one product
UsableRanking ==
  /\ AiRanking.t = "list"
  /\ \E k \in 1..Len(AiRanking.v) :
       AiRanking.v[k].t = "int" /\ AiRanking.v[k].v \in ProductIds

\* C13 as claimed: a recommendation holds at most 10 products, whatever the
\* user, the history, the catalog and the AI response.
C13_AtMostTenRecommended ==
  IsRecommendation /\ resp.status = 200 => Len(resp.results) <= 10

\* C14 as claimed: with a history, an AI response that is empty, no JSON, JSON
\* of another shape or a list without a valid id does not make the call raise:
\* the first 10 catalog products by id are returned.
C14_UnusableRankingFallsBack ==
  IsRecommendation /\ HasHistory /\ apiKey /\ ~UsableRanking
    => resp.status = 200 /\ resp.results = FirstTen

\* C15 as claimed: a usable AI ranking gives exactly the AI's ids that are ids
\* of the candidates sent in the prompt, in the AI's order; a product that was
\* not a candidate is never returned.
C15_RankingRestrictedToCandidates ==
  IsRecommendation /\ resp.branch = "ai" =>
    LET ids == SelectSeq(int_ids(AiRanking),
                         LAMBDA i : \E k \in 1..Len(Candidates) : Candidates[k].id = i)
    IN  /\ resp.results = [k \in 1..Len(ids) |-> ProductById(ids[k])]
        /\ \A k \in 1..Len(resp.results) :
             \E c \in 1..Len(Candidates) : Candidates[c] = resp.results[k]

\* C16 as claimed: for a user without interactions the AI is not called; the
\* result is the products with the 10 highest purchase counts in descending
\* order of purchase count, or the first 10 catalog products by id when nothing
\* was purchased.
C16_PopularByPurchaseCount ==
  IsRecommendation /\ ~HasHistory =>
    /\ resp.status = 200
    /\ ~resp.aiCalled
    /\ PurchasedIds = {} => resp.results = FirstTen
    /\ PurchasedIds # {} =>
         /\ {resp.results[k].id : k \in 1..Len(resp.results)} \in PopularChoices
         /\ Len(resp.results) = Cardinality({resp.results[k].id : k \in 1..Len(resp.results)})
         /\ \A k \in 1..(Len(resp.results) - 1) :
              PurchaseCount(resp.results[k].id) >= PurchaseCount(resp.results[k + 1].id)

-----------------------------------------------------------------------------
(* Properties of the interaction log                                       *)

\* C20: a search with a non-empty query by an authenticated caller appends
\* exactly one SEARCH interaction of that caller, with the trimmed query text
\* and no product, and does so before the catalog is queried; a search by an
\* anonymous caller or with an empty query appends nothing.
C20_SearchLogsOnce ==
  [][resp'.op = "search" =>
       LET q == Strip(resp'.message)
       IN  IF q # <<>> /\ resp'.user # Anonymous
             THEN /\ interactions' =
                       Append(interactions,
                              [user |-> resp'.user, event_type |-> "SEARCH",
                               product_id |-> 0, query_text |-> q])
                  /\ resp'.effects = <<"log", "query">>
           ELSE /\ interactions' = interactions
                /\ "log" \notin Range(resp'.effects)]_vars

\* a logged-in caller's query with surrounding blanks was answered and logged
C20_Witness ==
  /\ resp.op = "search"
  /\ resp.user # Anonymous
  /\ Strip(resp.message) \notin {<<>>, resp.message}
  /\ interactions # <<>>
  /\ interactions[Len(interactions)].event_type = "SEARCH"
  /\ interactions[Len(interactions)].query_text = Strip(resp.message)

-----------------------------------------------------------------------------
(* Properties of the review summary and the generated description          *)

\* the reviews handed to basic_review_summary, newest first
GivenReviews == product_reviews(1)

\* the lines of the reply
ReplyLines == SplitLines(resp.reply)

\* the position of the first line equal to text
LineOf(text) ==
  CHOOSE k \in 1..Len(ReplyLines) :
    ReplyLines[k] = text /\ \A j \in 1..(k - 1) : ReplyLines[j] # text

\* the bullet lines that follow the heading, up to the next empty line
BulletsAfter(heading) ==
  LET from == LineOf(heading) + 1
      stop == CHOOSE k \in from..Len(ReplyLines) :
                ReplyLines[k] = <<>> /\ \A j \in from..(k - 1) : ReplyLines[j] # <<>>
  IN  SubSeq(ReplyLines, from, stop - 1)

\* the positions of the given reviews whose text holds one of the keywords
MatchingAt(keywords) ==
  {k \in 1..Len(GivenReviews) :
     \E w \in Range(keywords) : Contains(w, Lower(GivenReviews[k].text))}

\* the first three of them
FirstThreeAt(keywords) ==
  {k \in MatchingAt(keywords) : Cardinality({j \in MatchingAt(keywords) : j < k}) < 3}

\* the bullets are the first three matching reviews in the given order, or the
\* placeholder alone when no review matches
ListsFirstMatches(shown, keywords, placeholder) ==
  /\ Len(shown) \in 1..3
  /\ MatchingAt(keywords) = {} => shown = <<<<"-", " ">> \o placeholder>>
  /\ MatchingAt(keywords) # {} =>
       /\ Len(shown) = Cardinality(FirstThreeAt(keywords))
       /\ \A k \in FirstThreeAt(keywords) :
            shown[Cardinality({j \in FirstThreeAt(keywords) : j <= k})] =
              <<"-", " ">> \o GivenReviews[k].text

\* C17: in the basic summary the pros and the cons each hold at most 3 entries,
\* the first matching reviews in the order the reviews were given; a review
\* matching both keyword sets is in both lists; an empty list is replaced by
\* one placeholder sentence.
C17_BasicSummaryLists ==
  resp.op = "summarize" /\ resp.branch = "fallback" =>
    /\ ListsFirstMatches(BulletsAfter(TopPros), pros_keywords, NoProsPlaceholder)
    /\ ListsFirstMatches(BulletsAfter(TopCons), cons_keywords, NoConsPlaceholder)

\* a basic summary of reviews of which more than three match the pros keywords
\* and one matches both keyword sets
C17_Witness ==
  /\ resp.op = "summarize"
  /\ resp.branch = "fallback"
  /\ Cardinality(MatchingAt(pros_keywords)) > 3
  /\ MatchingAt(pros_keywords) \cap MatchingAt(cons_keywords) # {}
  /\ MatchingAt(cons_keywords) # MatchingAt(pros_keywords)

\* the product of the request has no review
NoReviewsOf(product_id) == \A k \in 1..Len(reviews) : reviews[k].product_id # product_id

\* C18: a summary asked for a product without reviews is rejected with status
\* 400 and its own error, which no response given after an AI call carries; the
\* AI is not called and the stored summary stays as it was.
C18_NoReviewsRejected ==
  [][/\ (resp'.op = "summarize" /\ resp'.product_id \in ProductIds
           /\ NoReviewsOf(resp'.product_id))
         => /\ resp'.status = 400
            /\ resp'.reply = NoReviewsError
            /\ ~resp'.aiCalled
            /\ catalog' = catalog
     /\ (resp'.op \in {"summarize", "describe"} /\ resp'.aiCalled)
         => resp'.status # 400 /\ resp'.reply # NoReviewsError]_vars

\* the rejection was given for a product that has a stored summary, with the
\* API key present
C18_Witness ==
  /\ resp.op = "summarize"
  /\ resp.branch = "noreviews"
  /\ apiKey
  /\ catalog[RowOf(resp.product_id)].ai_review_summary # <<>>

\* C19: when generate_text returns no text the description request reports a
\* failure status and the products stay as they were; when it returns a text
\* that text replaces the stored ai_description and is returned.
C19_DescriptionOverwrittenOrKept ==
  [][(resp'.op = "describe" /\ resp'.aiCalled /\ resp'.branch # "raised") =>
       IF resp'.aiText = <<>>
         THEN /\ resp'.status = 502
              /\ resp'.reply = EmptyTextError
              /\ catalog' = catalog
       ELSE /\ resp'.status = 200
            /\ resp'.reply = resp'.aiText
            /\ catalog' = [catalog EXCEPT
                             ![RowOf(resp'.product_id)].ai_description = resp'.aiText]]_vars

\* a description was stored while another product holds another description
C19_Witness ==
  /\ resp.op = "describe"
  /\ resp.branch = "ai"
  /\ catalog[RowOf(resp.product_id)].ai_description = resp.aiText
  /\ \E k \in 1..Len(catalog) : catalog[k].ai_description \notin {<<>>, resp.aiText}


-----------------------------------------------------------------------------
(* Properties of requests naming both directions                           *)

\* the over-words of the endpoint that answered; for chat the high-price
\* phrases too
WantsOverOrHigh ==
  IF resp.op = "search" THEN search_wants_over(RequestText)
  ELSE chat_wants_over(RequestText) \/ chat_wants_high(RequestText)

\* the first line of a chat reply that is the deterministic listing
ListedTitle == SplitLines(resp.reply)[1]

\* C21 as claimed: a search query or chat message holding an amount N, an
\* under-word and an over-word or high-price phrase is answered as an "under"
\* request: every product costs at most N, the products come in non-decreasing
\* price order, and the listing of api_chat opens with the "under $N" title.
C21_UnderWinsConsistently ==
  (/\ IsQueryResponse
   /\ re_search_amount(RequestText) # NoAmount
   /\ WantsUnder
   /\ WantsOverOrHigh)
    => /\ AllAtMost(re_search_amount(RequestText))
       /\ NonDecreasingPrice(resp.results)
       /\ (resp.op = "chat" /\ resp.branch = "fallback") =>
            ListedTitle = TitleUnderPrefix \o FormatInt(re_search_amount(RequestText)) \o <<":">>


-----------------------------------------------------------------------------
(* Properties of the keywords of a chat message                            *)

\* the words of the direction phrases: below, under, less, than, cheaper, low,
\* price, above, over, more, higher, at, least, high, expensive, premium,
\* costly, most
DirectionWords ==
  UNION {Range(re_findall_alpha(w)) :
           w \in Range(chat_under_words) \cup Range(chat_over_words) \cup Range(chat_high_words)}

\* the generic commerce words
FillerWords ==
  { <<"s","u","g","g","e","s","t">>, <<"r","e","c","o","m","m","e","n","d">>,
    <<"s","h","o","w">>, <<"m","e">>, <<"p","l","e","a","s","e">>, <<"g","i","f","t">>,
    <<"p","r","o","d","u","c","t">>, <<"p","r","o","d","u","c","t","s">>,
    <<"p","r","i","c","e">>, <<"p","r","i","c","e","s">>,
    <<"d","o","l","l","a","r">>, <<"d","o","l","l","a","r","s">> }

StopWords == DirectionWords \cup FillerWords

\* a chat message that passed the test of line 308 and whose reply was computed
IsChatQuery == resp.op = "chat" /\ resp.branch \in {"nomatch", "ai", "fallback"}

\* the message has a word, and all its words are stop-words
OnlyStopWords ==
  /\ re_findall_alpha(RequestText) # <<>>
  /\ Range(re_findall_alpha(RequestText)) \subseteq StopWords

\* the newest products of the catalog, newest first: up to n of them
IsNewestFirst(ps, n) ==
  /\ Len(ps) = (IF Len(catalog) < n THEN Len(catalog) ELSE n)
  /\ \A i \in 1..Len(ps) : ps[i] \in Range(catalog)
  /\ \A i \in 1..(Len(ps) - 1) : ps[i].id > ps[i + 1].id
  /\ \A p \in Range(catalog) : p \in Range(ps) \/ \A i \in 1..Len(ps) : p.id < ps[i].id

\* C22 as claimed: a chat message made only of stop-words, with no amount and
\* no category, has no keywords and is answered with the newest products of
\* the catalog, up to 5, newest first: with some product whenever the catalog
\* has one.
C22_StopWordsOnlyUnfiltered ==
  (/\ IsChatQuery
   /\ OnlyStopWords
   /\ re_search_amount(RequestText) = NoAmount
   /\ chat_category(RequestText) = NoCategory)
    => /\ chat_keywords(RequestText) = <<>>
       /\ IsNewestFirst(resp.results, ChatLimit)
       /\ catalog # <<>> => resp.results # <<>>

\* the price test the message asks for: at most N, at least N, or none
PassesPrice(p) ==
  LET n == re_search_amount(RequestText)
  IN  IF n = NoAmount THEN TRUE
      ELSE IF WantsUnder THEN p.price <= 100 * n
      ELSE IF WantsOverOrHigh THEN p.price >= 100 * n
      ELSE TRUE

\* C23 as claimed: no stop-word of a chat message is kept as a keyword, and a
\* message of stop-words and an amount, naming no category, returns products
\* exactly when the catalog holds a product passing the price test: as many
\* as pass it, up to 5.
C23_StopWordsAreNoKeywords ==
  IsChatQuery =>
    /\ \A k \in 1..Len(chat_keywords(RequestText)) :
         chat_keywords(RequestText)[k] \notin StopWords
    /\ (/\ OnlyStopWords
        /\ re_search_amount(RequestText) # NoAmount
        /\ chat_category(RequestText) = NoCategory)
         => LET passing == Cardinality({p \in Range(catalog) : PassesPrice(p)})
            IN  /\ Len(resp.results) = (IF passing < ChatLimit THEN passing ELSE ChatLimit)
                /\ \A i \in 1..Len(resp.results) : PassesPrice(resp.results[i])


-----------------------------------------------------------------------------
(* Properties of the title                                                 *)

\* the text "$N" for the amount of the message
ThresholdText == <<"$">> \o FormatInt(re_search_amount(RequestText))

\* the deterministic listing was returned, with at least one product
ListingReturned ==
  resp.op = "chat" /\ resp.branch = "fallback" /\ resp.results # <<>>

\* C24 as claimed: whenever the chat message holds an amount N and products
\* were retrieved, the title line of the deterministic reply names $N.
C24_TitleNamesAmount ==
  (ListingReturned /\ re_search_amount(RequestText) # NoAmount)
    => Contains(ThresholdText, ListedTitle)

\* C24 as amended: whenever the chat message holds an amount N (its first
\* integer) and an under-word, an over-word or a high-price phrase, and
\* products were retrieved, the title line of the deterministic reply names $N.
C24_TitleNamesThreshold ==
  (/\ ListingReturned
   /\ re_search_amount(RequestText) # NoAmount
   /\ WantsUnder \/ WantsOverOrHigh)
    => Contains(ThresholdText \o <<":">>, ListedTitle)

\* a listing of part of the catalog for a message with a two-digit amount, a
\* direction and a keyword
C24_Witness ==
  /\ ListingReturned
  /\ re_search_amount(RequestText) >= 10
  /\ WantsUnder \/ WantsOverOrHigh
  /\ chat_keywords(RequestText) # <<>>
  /\ \E p \in Range(catalog) : p \notin Range(resp.results)


-----------------------------------------------------------------------------
(* Properties of the order among equal prices                              *)

\* the request was ordered by price: an amount with a direction, or for chat
\* a high-price phrase
PriceSorted ==
  \/ re_search_amount(RequestText) # NoAmount /\ (WantsUnder \/ WantsOverOrHigh)
  \/ resp.op = "chat" /\ chat_wants_high(RequestText)

\* C25 as claimed: in every result of api_search and api_chat that is ordered
\* by price, ascending or descending, products of equal price come in
\* ascending id order.
C25_EqualPricesByAscendingId ==
  (IsQueryResponse /\ PriceSorted) =>
    \A i \in 1..(Len(resp.results) - 1) :
      resp.results[i].price = resp.results[i + 1].price
        => resp.results[i].id < resp.results[i + 1].id


-----------------------------------------------------------------------------
(* Properties of the keyword filter of api_chat                            *)

\* the product is in the category of the message, if the message names one
PassesCategory(p) ==
  LET category == chat_category(RequestText)
  IN  category = NoCategory \/ IContains(p.category, category) \/ IContains(p.tags, category)

\* some keyword among kws occurs in the name, category, tags or short
\* description of p, whatever the case of the letters
MatchesAny(p, kws) ==
  \E k \in 1..Len(kws) :
    \E field \in {p.name, p.category, p.tags, p.short_description} :
      Contains(Lower(kws[k]), Lower(field))

\* the results are n products of the set kept, or all of them if fewer
ResultsTakenFrom(kept, n) ==
  /\ Range(resp.results) \subseteq kept
  /\ Len(resp.results) = (IF Cardinality(kept) < n THEN Cardinality(kept) ELSE n)

\* C26 as claimed: for a chat message with keywords, the products kept are
\* exactly those passing the category and price tests in which some keyword of
\* the whole list occurs.
C26_AnyKeywordKeeps ==
  (IsChatQuery /\ chat_keywords(RequestText) # <<>>) =>
    ResultsTakenFrom({p \in Range(catalog) :
                        /\ PassesCategory(p) /\ PassesPrice(p)
                        /\ MatchesAny(p, chat_keywords(RequestText))}, ChatLimit)

\* C26 as amended: for a chat message with keywords, the products kept are
\* exactly those passing the category and price tests in which one of the
\* first 6 keywords occurs.
C26_AnyOfFirstSixKeywordsKeeps ==
  (IsChatQuery /\ chat_keywords(RequestText) # <<>>) =>
    ResultsTakenFrom({p \in Range(catalog) :
                        /\ PassesCategory(p) /\ PassesPrice(p)
                        /\ MatchesAny(p, Take(chat_keywords(RequestText), KeywordLimit))},
                     ChatLimit)

\* a message of more than 6 keywords that kept one product and dropped another
C26_Witness ==
  /\ IsChatQuery
  /\ Len(chat_keywords(RequestText)) > KeywordLimit
  /\ resp.results # <<>>
  /\ \E p \in Range(catalog) : p \notin Range(resp.results)


-----------------------------------------------------------------------------
(* Properties of the prompt of the recommendations                         *)

\* the last 50 rows of the user, oldest first
LastFifty == LastOf(SelectSeq(interactions, LAMBDA i : i.user = resp.user), HistoryLimit)

\* the 10 newest rows of a kind among them
NewestOfKind(event_type) ==
  LastOf(SelectSeq(LastFifty, LAMBDA i : i.event_type = event_type), 10)

\* C27 as claimed: in the history branch each signal list of the prompt holds
\* the 10 most recent entries of its kind among the user's last 50
\* interactions (all of them when there are fewer): the names of the products
\* viewed, the names of the products purchased, the texts searched for.
C27_SignalsAreMostRecent ==
  (IsRecommendation /\ resp.aiCalled) =>
    /\ Range(resp.prompt.viewed) =
         {ProductById(i.product_id).name : i \in Range(NewestOfKind("VIEW"))}
    /\ Range(resp.prompt.purchased) =
         {ProductById(i.product_id).name : i \in Range(NewestOfKind("PURCHASE"))}
    /\ Range(resp.prompt.searched) =
         {i.query_text : i \in Range(NewestOfKind("SEARCH"))}


-----------------------------------------------------------------------------
(* Properties of requests served at the same time                          *)

\* both requests were for the same product and both answered with status 200
BothSucceeded ==
  /\ inflight["describe"].pc = "done" /\ inflight["describe"].status = 200
  /\ inflight["summarize"].pc = "done" /\ inflight["summarize"].status = 200
  /\ inflight["describe"].product.id = inflight["summarize"].product.id

\* C28 as claimed: when a description request and a summary request for the
\* same product are served at the same time and both succeed, the row then
\* holds the description the one returned and the summary the other
\* returned, however their steps interleave.
C28_NoWriteLost ==
  BothSucceeded =>
    LET row == catalog[RowOf(inflight["describe"].product.id)]
    IN  /\ row.ai_description = inflight["describe"].text
        /\ row.ai_review_summary = inflight["summarize"].text


-----------------------------------------------------------------------------
(* Properties of the interaction log over time                             *)

\* the rows a holds are the first rows of b, in the same order
IsPrefix(a, b) == Len(a) <= Len(b) /\ SubSeq(b, 1, Len(a)) = a

\* the user has a row in the log
HasRows(user) == \E k \in 1..Len(interactions) : interactions[k].user = user

\* C29: no step removes or changes a row of the interaction log, and a
\* recommendation computed for a user who has a row in the log takes the
\* history branch (the ranking is asked of the AI), never the popularity
\* branch; so once a user has a row every later recommendation for that
\* user takes the history branch.
C29_HistoryBranchForever ==
  [][/\ IsPrefix(interactions, interactions')
     /\ (resp'.op = "recommend" /\ resp'.user \in Users /\ HasRows(resp'.user)) =>
          /\ resp'.aiCalled
          /\ resp'.branch \in {"ai", "fallback", "raised"}]_vars

\* a recommendation for a user whose only row is a VIEW or a SEARCH logged by a
\* request, while purchases of other users are on record
C29_Witness ==
  /\ IsRecommendation
  /\ PurchasedIds # {}
  /\ LoggedCount > 0
  /\ Cardinality({k \in 1..Len(interactions) : interactions[k].user = resp.user}) = 1
  /\ resp.branch \in {"ai", "fallback"}


-----------------------------------------------------------------------------
(* Properties of the list of recommendations                               *)

\* C30 as claimed: the list a recommendation returns never holds the same
\* product twice, in every branch and whatever the AI answers.
C30_NoProductTwice ==
  IsRecommendation =>
    \A i, j \in 1..Len(resp.results) :
      i # j => resp.results[i].id # resp.results[j].id

=============================================================================
